---------------------------- MODULE Spec2Model ----------------------------
(***************************************************************************)
(* Verification model of pyIcePAP (package icepap).                        *)
(*                                                                         *)
(*   SpecTcp    icepap/tcp.py: the RawTCP transport and the TCP session    *)
(*              that wraps each operation in ensure_connection.            *)
(*   SpecPower  icepap/group.py: the ensure_power scope over a group.     *)
(*   SpecCom    icepap/communication.py: threads sending commands through  *)
(*              IcePAPCommunication.send_cmd and SocketCom._send_data,     *)
(*              the reconnection threads and the controller's replies.     *)
(***************************************************************************)
EXTENDS Integers, Sequences, FiniteSets, TLC

(***************************************************************************)
(* Bounds of the model.                                                    *)
(***************************************************************************)
\* RawTCP objects one run may create
MaxConn == 2
\* 8 KiB blocks of the longest request written
MaxBlocks == 1
\* chunks one readline may receive before the line ends or the read fails
MaxRecv == 1
\* axes of the controller
NAxes == 2
\* commands the threads of one run issue on the SocketCom session
MaxCmds == 2
\* socket objects one SocketCom creates in a run
MaxSock == 2
\* symbols of the longest command text that is classified
MaxCmdLen == 2
\* pairs of one gen_motion loop that are kept
MaxPolls == 3

\* the IcePAPAxis objects one controller object creates
MaxHandles == 3

\* the commands one controller object writes
MaxSent == 2

\* the largest device table
MaxEntries == 401

\* the longest table that is uploaded
MaxTable == 2

VARIABLES
    \* ---- icepap/tcp.py ----
    rawState,            \* RawTCP._state of every transport object
    rawBuffer,           \* RawTCP._buffer of every transport object
    tcpSock,             \* TCP._sock: 0 is None, else the RawTCP object
    connection_counter,  \* TCP.connection_counter
    tcpPc,               \* where the running session call stands
    call,                \* the running (or last finished) session call
    lastRaw,             \* the last operation invoked on a transport object
    hist,                \* what the session did last
    \* ---- icepap/group.py ----
    power,               \* motor power of every axis, on the controller
    pwPc,                \* "out": no scope is open, "body": inside the scope
    scope,               \* the open (or last left) ensure_power scope
    \* ---- icepap/communication.py ----
    skState,             \* every socket object: none, fresh, conn, closed
    wire,                \* bytes the controller sent that were not read yet
    peer,                \* the controller's end of every connection
    socket_,             \* SocketCom._socket
    connected,           \* SocketCom.connected
    stop_thread,         \* SocketCom._stop_thread
    lock,                \* SocketCom._lock: "free" or the thread holding it
    pc,                  \* where every calling thread stands in _send_data
    th,                  \* the command every calling thread is running
    done,                \* the command that finished last, with its result
    ct,                  \* where every _try_to_connect thread stands
    issued,              \* commands issued so far
    lastIo,              \* the last sendall or recv on a socket
    \* ---- icepap/communication.py: the class of a command ----
    clsCmd,              \* the text handed to IcePAPCommunication.send_cmd
    clsOut,              \* what is written for it and whether a reply is read
    \* ---- icepap/cli/progress_bar.py _move, icepap/group.py ----
    mvPc,                \* where _move stands
    mvPower,             \* motor power of every axis, on the controller
    moving,              \* whether every axis is in motion, on the controller
    mv,                  \* the scopes, the exception and the handler of _move
    yields,              \* the pairs the running gen_motion has yielded
    \* ---- icepap/utils.py get_ctrl_item, the Group accessors ----
    itIn,                \* the accessor called, its group, and how the queries end
    itOut,               \* what the accessor returned or raised
    \* ---- icepap/controller.py, the multi-axis queries ----
    mqIn,                \* the query, its address list, the controller's values
    mqOut,               \* what the query returned or raised
    \* ---- icepap/controller.py, the axes and the aliases ----
    axes_,               \* _axes: address -> handle (the identity of an IcePAPAxis)
    aliases_,            \* _aliases: name -> address
    created,             \* the number of IcePAPAxis objects created so far
    written,             \* the number of commands written to the controller
    ctl,                 \* the last operation and how it ended
    \* ---- icepap/axis.py, the dump of a position table ----
    dev,                 \* the table command, the size of the device table, the len it reports
    dump,                \* the loop of _get_dump_table: offset, values, pages read, outcome
    \* ---- icepap/axis.py set_ecam_table, communication.py send_binary ----
    upTh,                \* each thread's call: its table, its position, what it wrote
    upWire,              \* what the session's socket was given, in order
    upLock,              \* SocketCom._lock as the uploads see it
    tostring,            \* whether array.array has tostring (removed in Python 3.9)
    \* ---- icepap/controller.py find_axes ----
    sysstat,             \* what the controller answers: the rack mask, the masks of each rack
    found,               \* the result of find_axes and the racks it asked for
    \* ---- icepap/utils.py State ----
    status_reg,          \* State._status_reg: a 32-bit word as its two 16-bit halves
    decoded,             \* what the accessors of the State return
    \* ---- icepap/communication.py: the connection of a SocketCom ----
    cnSocket,            \* the object SocketCom._socket refers to: fresh, conn, closed
    cnPeer,              \* the controller's end of that connection
    cnReach,             \* whether the controller accepts and answers
    cnConnected,         \* SocketCom.connected
    cnStop,              \* SocketCom._stop_thread
    cnLock,              \* SocketCom._lock
    cnLatest,            \* SocketCom._connect_thread
    cnPc,                \* where each calling thread stands
    cnKind,              \* the kind of command each calling thread sends
    cnCt,                \* where each _try_to_connect thread stands
    cnObs                \* what the callers have observed

tcpVars == <<rawState, rawBuffer, tcpSock, connection_counter, tcpPc, call,
             lastRaw, hist>>

powVars == <<power, pwPc, scope>>

comVars == <<skState, wire, peer, socket_, connected, stop_thread, lock, pc,
             th, done, ct, issued, lastIo>>

clsVars == <<clsCmd, clsOut>>

mvVars == <<mvPc, mvPower, moving, mv, yields>>

itVars == <<itIn, itOut>>

mqVars == <<mqIn, mqOut>>

ctlVars == <<axes_, aliases_, created, written, ctl>>

dtVars == <<dev, dump>>

upVars == <<upTh, upWire, upLock, tostring>>

faVars == <<sysstat, found>>

srVars == <<status_reg, decoded>>

cnVars == <<cnSocket, cnPeer, cnReach, cnConnected, cnStop, cnLock, cnLatest,
            cnPc, cnKind, cnCt, cnObs>>

vars == <<tcpVars, powVars, comVars, clsVars, mvVars, itVars, mqVars, ctlVars,
          dtVars, upVars, faVars, srVars, cnVars>>

\* what the actions of one part of the program leave alone
notTcp == <<powVars, comVars, clsVars, mvVars, itVars, mqVars, ctlVars,
            dtVars, upVars, faVars, srVars, cnVars>>
notPow == <<tcpVars, comVars, clsVars, mvVars, itVars, mqVars, ctlVars,
            dtVars, upVars, faVars, srVars, cnVars>>
notCom == <<tcpVars, powVars, clsVars, mvVars, itVars, mqVars, ctlVars,
            dtVars, upVars, faVars, srVars, cnVars>>
notCls == <<tcpVars, powVars, comVars, mvVars, itVars, mqVars, ctlVars,
            dtVars, upVars, faVars, srVars, cnVars>>
notMove == <<tcpVars, powVars, comVars, clsVars, itVars, mqVars, ctlVars,
             dtVars, upVars, faVars, srVars, cnVars>>
notItem == <<tcpVars, powVars, comVars, clsVars, mvVars, mqVars, ctlVars,
             dtVars, upVars, faVars, srVars, cnVars>>
notQuery == <<tcpVars, powVars, comVars, clsVars, mvVars, itVars, ctlVars,
              dtVars, upVars, faVars, srVars, cnVars>>
notCtl == <<tcpVars, powVars, comVars, clsVars, mvVars, itVars, mqVars,
            dtVars, upVars, faVars, srVars, cnVars>>
notDump == <<tcpVars, powVars, comVars, clsVars, mvVars, itVars, mqVars,
             ctlVars, upVars, faVars, srVars, cnVars>>
notUpload == <<tcpVars, powVars, comVars, clsVars, mvVars, itVars, mqVars,
               ctlVars, dtVars, faVars, srVars, cnVars>>
notFind == <<tcpVars, powVars, comVars, clsVars, mvVars, itVars, mqVars,
             ctlVars, dtVars, upVars, srVars, cnVars>>
notState == <<tcpVars, powVars, comVars, clsVars, mvVars, itVars, mqVars,
              ctlVars, dtVars, upVars, faVars, cnVars>>
notConn == <<tcpVars, powVars, comVars, clsVars, mvVars, itVars, mqVars,
             ctlVars, dtVars, upVars, faVars, srVars>>

(***************************************************************************)
(* Helpers.                                                                *)
(***************************************************************************)
SeqsUpTo(S, n) == UNION {[1..k -> S] : k \in 0..n}

RawIds == 1..MaxConn

\* tcp.py line 24: OPENING, OPEN, CLOSED = range(3); NONE: not constructed
RawStates == {"NONE", "OPENING", "OPEN", "CLOSED"}

\* the end-of-line byte (RawTCP.eol) and one other byte
EOL == "\n"
Bytes == {"x", EOL}

\* what one recv may deliver
Chunks == {<<"x">>, <<"x", EOL>>, <<EOL, "x">>}

\* Timeout = socket.timeout is an OSError; every exception below is one
IsTimeout(e) == e = "Timeout"
IsOSError(e) == e \in {"Timeout", "BrokenPipeError", "ConnectionError",
                       "ConnectionResetError", "ConnectionRefusedError",
                       "EBADF", "OSError"}

(***************************************************************************)
(* RawTCP: a transport object is the record [state, buffer]; an operation  *)
(* yields [t, exc, cause, val, io, sent]: the object afterwards, the       *)
(* exception raised ("none": returned), what the network did to cause it,  *)
(* the value returned, the number of socket calls made and the number of   *)
(* blocks handed to sendall.                                               *)
(***************************************************************************)
Res(t, exc, cause, val, io, sent) ==
    [t |-> t, exc |-> exc, cause |-> cause, val |-> val, io |-> io, sent |-> sent]

\* RawTCP.close: the state is CLOSED, the buffer dropped, the socket released
RawClose(t) == [state |-> "CLOSED", buffer |-> <<>>]

\* to_error / Timeout: the exception a failed connection attempt raises
OpenError(oc) ==
    IF oc = "timeout" THEN "Timeout" ELSE "ConnectionRefusedError"

\* RawTCP.wait_open; oc is the outcome of select + SO_ERROR on the socket
WaitOpen_SetsOpen(t, oc) ==
    IF t.state = "OPEN" THEN Res(t, "none", "none", <<>>, 0, 0)
    ELSE IF oc = "ok" \/ t.state = "CLOSED"
         THEN Res([t EXCEPT !.state = "OPEN"], "none", "none", <<>>, 1, 0)
         ELSE Res(t, OpenError(oc), oc, <<>>, 1, 0)

WaitOpen(t, oc) ==
    IF t.state = "OPEN" THEN Res(t, "none", "none", <<>>, 0, 0)
    ELSE IF t.state = "CLOSED"
         THEN Res(t, "OSError", "closed", <<>>, 0, 0)
         ELSE IF oc = "ok"
              THEN Res([t EXCEPT !.state = "OPEN"], "none", "none", <<>>, 1, 0)
              ELSE Res(t, OpenError(oc), oc, <<>>, 1, 0)

\* close_on_error, except that a Timeout leaves the transport open
CloseOnError_KeepOnTimeout(r) ==
    IF r.exc = "none" \/ IsTimeout(r.exc) THEN r
    ELSE [r EXCEPT !.t = RawClose(r.t)]

\* close_on_error: whatever the wrapped method raises closes the transport
CloseOnError(r) ==
    IF r.exc = "none" THEN r ELSE [r EXCEPT !.t = RawClose(r.t)]

\* RawTCP._write: per block, select for writability, then sendall.
\* w.failAt = 0: every block is sent; else block w.failAt fails, by w.kind:
\* "notwritable" (select timed out) or "senderr" (sendall raised).
Write_(t, n, w) ==
    CloseOnError(
        IF w.failAt = 0 \/ w.failAt > n
        THEN Res(t, "none", "none", <<>>, 2 * n, n)
        ELSE IF w.kind = "notwritable"
             THEN Res(t, "BrokenPipeError", "write_timeout", <<>>,
                      2 * w.failAt - 1, w.failAt - 1)
             ELSE Res(t, "ConnectionResetError", "reset", <<>>,
                      2 * w.failAt, w.failAt - 1))

\* the exception a failed recv (or the select before it) raises
RecvError(kind) ==
    CASE kind = "timeout" -> "Timeout"
      [] kind = "eof" -> "ConnectionError"
      [] OTHER -> "ConnectionResetError"

RecvCause(kind) ==
    CASE kind = "timeout" -> "read_timeout"
      [] kind = "eof" -> "remote_close"
      [] OTHER -> "reset"

\* RawTCP._read; rc is the outcome of select + recv
Read_(t, rc) ==
    CloseOnError(
        IF t.buffer # <<>>
        THEN Res([t EXCEPT !.buffer = <<>>], "none", "none", t.buffer, 0, 0)
        ELSE IF rc.kind = "data"
             THEN Res(t, "none", "none", rc.data, 2, 0)
             ELSE Res(t, RecvError(rc.kind), RecvCause(rc.kind), <<>>,
                      IF rc.kind = "timeout" THEN 1 ELSE 2, 0))

\* bytes.partition(eol): the position of the first eol, 0 when there is none
FirstEol(buf) ==
    IF \E i \in 1..Len(buf) : buf[i] = EOL
    THEN CHOOSE i \in 1..Len(buf) :
            buf[i] = EOL /\ \A j \in 1..(i - 1) : buf[j] # EOL
    ELSE 0

\* the loop of RawTCP._readline over stream(sock): rs are the chunks the
\* successive recv calls deliver, term is what ends the stream after them
RECURSIVE ReadlineLoop(_, _, _, _, _)
ReadlineLoop(t, buf, rs, term, io) ==
    IF rs = <<>>
    THEN Res([t EXCEPT !.buffer = buf], RecvError(term), RecvCause(term), <<>>,
             io + (IF term = "timeout" THEN 1 ELSE 2), 0)
    ELSE LET b == buf \o Head(rs)
             k == FirstEol(b)
         IN IF k > 0
            THEN Res([t EXCEPT !.buffer = SubSeq(b, k + 1, Len(b))],
                     "none", "none", SubSeq(b, 1, k), io + 2, 0)
            ELSE ReadlineLoop(t, b, Tail(rs), term, io + 2)

\* RawTCP._readline
Readline_(t, rl) ==
    CloseOnError(
        LET k == FirstEol(t.buffer)
        IN IF k > 0
           THEN Res([t EXCEPT !.buffer = SubSeq(t.buffer, k + 1, Len(t.buffer))],
                    "none", "none", SubSeq(t.buffer, 1, k), 0, 0)
           ELSE ReadlineLoop(t, t.buffer, rl.rs, rl.term, 0))

\* one operation after another on the same transport (write_read and
\* write_readline): the second runs only when the first returned
Then(r1, r2) ==
    IF r1.exc # "none" THEN r1
    ELSE [r2 EXCEPT !.io = r1.io + r2.io, !.sent = r1.sent]

\* the body of the five public operations of RawTCP
RawBody(t, op, n, in) ==
    CASE op = "write" -> Write_(t, n, in.w)
      [] op = "read" -> Read_(t, in.r)
      [] op = "readline" -> Readline_(t, in.rl)
      [] op = "write_read" ->
            LET r1 == Write_(t, n, in.w) IN Then(r1, Read_(r1.t, in.r))
      [] op = "write_readline" ->
            LET r1 == Write_(t, n, in.w) IN Then(r1, Readline_(r1.t, in.rl))

\* check_open without the test for CLOSED
CheckOpen_NoClosedTest(t, op, n, in) ==
    IF t.state = "OPENING"
    THEN LET w == WaitOpen(t, in.open)
         IN IF w.exc # "none" THEN w
            ELSE LET r == RawBody(w.t, op, n, in)
                 IN [r EXCEPT !.io = w.io + r.io]
    ELSE RawBody(t, op, n, in)

\* check_open around a public operation: CLOSED raises EBADF, OPENING waits
\* for the connection first
CheckOpen(t, op, n, in) ==
    IF t.state = "CLOSED"
    THEN Res(t, "EBADF", "closed", <<>>, 0, 0)
    ELSE IF t.state = "OPENING"
         THEN LET w == WaitOpen(t, in.open)
              IN IF w.exc # "none" THEN w
                 ELSE LET r == RawBody(w.t, op, n, in)
                      IN [r EXCEPT !.io = w.io + r.io]
         ELSE RawBody(t, op, n, in)

(***************************************************************************)
(* What the network may do during one operation.                           *)
(***************************************************************************)
RawOps == {"write", "read", "readline", "write_read", "write_readline"}

\* the numbers of blocks the data argument of op may hold (read and readline
\* take no data)
Blocks(op) == IF op \in {"read", "readline"} THEN {0} ELSE 0..MaxBlocks

OpenOutcomes == {"ok", "timeout", "refused"}

NoWrite == [failAt |-> 0, kind |-> "none"]
WriteInputs(n) ==
    {NoWrite} \cup [failAt : 1..n, kind : {"notwritable", "senderr"}]

NoRead == [kind |-> "timeout", data |-> <<>>]
ReadInputs ==
    [kind : {"data"}, data : Chunks]
        \cup [kind : {"timeout", "eof", "reset"}, data : {<<>>}]

NoReadline == [rs |-> <<>>, term |-> "timeout"]
ReadlineInputs == [rs : SeqsUpTo(Chunks, MaxRecv), term : {"timeout", "eof", "reset"}]

\* the last chunk of a readline ends the line, or none does and the stream
\* ends by rl.term
TightReadline(rl) ==
    /\ \A i \in 1..(Len(rl.rs) - 1) : FirstEol(rl.rs[i]) = 0
    /\ (rl.rs # <<>> /\ FirstEol(rl.rs[Len(rl.rs)]) > 0) => rl.term = "timeout"

TightReadlines == {rl \in ReadlineInputs : TightReadline(rl)}

NoInput == [open |-> "ok", w |-> NoWrite, r |-> NoRead, rl |-> NoReadline]

\* the inputs operation op reads on transport t, writing n blocks: an input
\* the operation never gets to is left at its default
Inputs(t, op, n) ==
    IF t.state = "CLOSED" THEN {NoInput}
    ELSE LET openFail == IF t.state = "OPENING"
                         THEN {[NoInput EXCEPT !.open = o] : o \in {"timeout", "refused"}}
                         ELSE {}
             writeFail == IF op \in {"write", "write_read", "write_readline"}
                          THEN {[NoInput EXCEPT !.w = w] : w \in WriteInputs(n) \ {NoWrite}}
                          ELSE {}
             rs == IF op \in {"read", "write_read"} /\ t.buffer = <<>>
                   THEN ReadInputs ELSE {NoRead}
             rls == IF op \in {"readline", "write_readline"} /\ FirstEol(t.buffer) = 0
                    THEN TightReadlines ELSE {NoReadline}
         IN openFail \cup writeFail
                \cup {[NoInput EXCEPT !.r = r, !.rl = rl] : r \in rs, rl \in rls}

(***************************************************************************)
(* TCP: the session.  A call of a wrapped operation runs through           *)
(* ensure_connection: _ensure_connected, the operation, and on an OSError  *)
(* that is no Timeout: close, and unless this call made the connection,    *)
(* _ensure_connected and the operation once more.                          *)
(***************************************************************************)
Ev(ev, exc, cause) == [ev |-> ev, exc |-> exc, cause |-> cause]

NoCall == [op |-> "none", n |-> 0, made |-> FALSE, trace |-> <<>>,
           result |-> "none", after |-> "none", wrote |-> <<>>]

NoRaw == [id |-> 0, op |-> "none", before |-> "NONE", exc |-> "none",
          cause |-> "none", io |-> FALSE]

RawDone(id, op, before, r) ==
    [id |-> id, op |-> op, before |-> before, exc |-> r.exc, cause |-> r.cause,
     io |-> r.io > 0]

Obj(id) == [state |-> rawState[id], buffer |-> rawBuffer[id]]

HasFree == \E id \in RawIds : rawState[id] = "NONE"
NextId == CHOOSE id \in RawIds :
            rawState[id] = "NONE" /\ \A j \in RawIds : rawState[j] = "NONE" => id <= j

\* TCP.connected
Connected == tcpSock # 0 /\ rawState[tcpSock] = "OPEN"

\* create_connection + RawTCP.__init__ + wait_open, as _ensure_connected
\* runs them when the session is not connected
ConnOutcomes == OpenOutcomes \cup {"create_refused"}

\* TCP._ensure_connected: [made, exc, cause] and the new values of the
\* session's fields; co is what the network answers to the attempt
EnsureConnected(co) ==
    IF Connected
    THEN [made |-> FALSE, tried |-> FALSE, exc |-> "none", cause |-> "none",
          sock |-> tcpSock, states |-> rawState, counter |-> connection_counter]
    ELSE IF co = "create_refused"
    THEN [made |-> FALSE, tried |-> TRUE, exc |-> "ConnectionRefusedError",
          cause |-> "refused", sock |-> tcpSock, states |-> rawState,
          counter |-> connection_counter]
    ELSE LET w == WaitOpen([state |-> "OPENING", buffer |-> <<>>], co)
         IN [made |-> w.exc = "none", tried |-> TRUE, exc |-> w.exc,
             cause |-> w.cause, sock |-> NextId,
             states |-> [rawState EXCEPT ![NextId] = w.t.state],
             counter |-> IF w.exc = "none" THEN connection_counter + 1
                         ELSE connection_counter]

\* what a finished call leaves behind for the next one: "readTimeout" when
\* it ended in a Timeout of a read and met no connection-level error
Left(trace, result) ==
    IF /\ result = "Timeout"
       /\ trace # <<>>
       /\ trace[Len(trace)].cause = "read_timeout"
       /\ \A i \in 1..Len(trace) :
            trace[i].exc \in {"none", "Timeout"}
    THEN "readTimeout"
    ELSE "other"

\* ensure_connection, line 229: an OSError of the first try is retried
\* whether or not this call made the connection
RetryAfterError_Always(made) == TRUE

\* ensure_connection, lines 229-231: after an OSError the operation is
\* retried only when this call had found the connection already made
RetryAfterError(made) == ~made

\* ensure_connection, line 222: the call begins with _ensure_connected
TcpBegin(op, n, co) ==
    /\ tcpPc = "idle"
    /\ HasFree
    /\ Connected => co = "ok"
    /\ LET e == EnsureConnected(co)
       IN /\ rawState' = e.states
          /\ tcpSock' = e.sock
          /\ connection_counter' = e.counter
          /\ call' = [op |-> op, n |-> n, made |-> e.made,
                      trace |-> IF e.tried THEN <<Ev("conn", e.exc, e.cause)>>
                                ELSE <<>>,
                      result |-> IF e.exc = "none" THEN "running" ELSE e.exc,
                      after |-> hist,
                      wrote |-> <<>>]
          /\ tcpPc' = IF e.exc = "none" THEN "try1" ELSE "idle"
          /\ hist' = "other"
          /\ lastRaw' = IF e.tried /\ co # "create_refused"
                        THEN [NoRaw EXCEPT !.id = e.sock, !.op = "wait_open",
                                           !.before = "OPENING", !.exc = e.exc,
                                           !.cause = e.cause, !.io = TRUE]
                        ELSE NoRaw
    /\ UNCHANGED rawBuffer
    /\ UNCHANGED notTcp

\* ensure_connection, lines 223-230: the first try of the operation
TcpTry1 ==
    /\ tcpPc = "try1"
    /\ \E in \in Inputs(Obj(tcpSock), call.op, call.n) :
       LET r == CheckOpen(Obj(tcpSock), call.op, call.n, in)
           tr == Append(call.trace, Ev("try", r.exc, r.cause))
       IN /\ lastRaw' = RawDone(tcpSock, call.op, rawState[tcpSock], r)
          /\ IF r.exc = "none" \/ IsTimeout(r.exc)
             THEN /\ rawState' = [rawState EXCEPT ![tcpSock] = r.t.state]
                  /\ rawBuffer' = [rawBuffer EXCEPT ![tcpSock] = r.t.buffer]
                  /\ call' = [call EXCEPT !.trace = tr,
                                !.wrote = Append(@, r.sent),
                                !.result = IF r.exc = "none" THEN "ok" ELSE r.exc]
                  /\ tcpPc' = "idle"
                  /\ hist' = Left(tr, call'.result)
             ELSE \* except OSError: self.close()
                  /\ rawState' = [rawState EXCEPT ![tcpSock] = "CLOSED"]
                  /\ rawBuffer' = [rawBuffer EXCEPT ![tcpSock] = <<>>]
                  /\ IF RetryAfterError(call.made)
                     THEN /\ call' = [call EXCEPT
                                        !.trace = Append(tr, Ev("close", "none", "none")),
                                        !.wrote = Append(@, r.sent)]
                          /\ tcpPc' = "reconnect"
                          /\ hist' = hist
                     ELSE /\ call' = [call EXCEPT
                                        !.trace = Append(tr, Ev("close", "none", "none")),
                                        !.wrote = Append(@, r.sent),
                                        !.result = r.exc]
                          /\ tcpPc' = "idle"
                          /\ hist' = "other"
    /\ UNCHANGED <<tcpSock, connection_counter>>
    /\ UNCHANGED notTcp

\* ensure_connection, line 231: the reconnect after the failed first try
TcpReconnect(co) ==
    /\ tcpPc = "reconnect"
    /\ HasFree
    /\ LET e == EnsureConnected(co)
       IN /\ rawState' = e.states
          /\ tcpSock' = e.sock
          /\ connection_counter' = e.counter
          /\ call' = [call EXCEPT
                        !.trace = Append(@, Ev("conn", e.exc, e.cause)),
                        !.result = IF e.exc = "none" THEN "running" ELSE e.exc]
          /\ tcpPc' = IF e.exc = "none" THEN "try2" ELSE "idle"
          /\ hist' = IF e.exc = "none" THEN hist ELSE "other"
          /\ lastRaw' = IF co # "create_refused"
                        THEN [NoRaw EXCEPT !.id = e.sock, !.op = "wait_open",
                                           !.before = "OPENING", !.exc = e.exc,
                                           !.cause = e.cause, !.io = TRUE]
                        ELSE NoRaw
    /\ UNCHANGED rawBuffer
    /\ UNCHANGED notTcp

\* ensure_connection, line 232: the retry; whatever it raises reaches the
\* caller
TcpTry2 ==
    /\ tcpPc = "try2"
    /\ \E in \in Inputs(Obj(tcpSock), call.op, call.n) :
       LET r == CheckOpen(Obj(tcpSock), call.op, call.n, in)
           tr == Append(call.trace, Ev("try", r.exc, r.cause))
       IN /\ lastRaw' = RawDone(tcpSock, call.op, rawState[tcpSock], r)
          /\ rawState' = [rawState EXCEPT ![tcpSock] = r.t.state]
          /\ rawBuffer' = [rawBuffer EXCEPT ![tcpSock] = r.t.buffer]
          /\ call' = [call EXCEPT !.trace = tr,
                        !.wrote = Append(@, r.sent),
                        !.result = IF r.exc = "none" THEN "ok" ELSE r.exc]
          /\ tcpPc' = "idle"
          /\ hist' = Left(tr, call'.result)
    /\ UNCHANGED <<tcpSock, connection_counter>>
    /\ UNCHANGED notTcp

\* TCP.connect
TcpConnect(co) ==
    /\ tcpPc = "idle"
    /\ HasFree
    /\ Connected => co = "ok"
    /\ LET e == EnsureConnected(co)
       IN /\ rawState' = e.states
          /\ tcpSock' = e.sock
          /\ connection_counter' = e.counter
          /\ call' = [NoCall EXCEPT !.op = "connect", !.made = e.made,
                        !.trace = IF e.tried THEN <<Ev("conn", e.exc, e.cause)>>
                                  ELSE <<>>,
                        !.result = IF e.exc = "none" THEN "ok" ELSE e.exc,
                        !.after = hist]
          /\ lastRaw' = IF e.tried /\ co # "create_refused"
                        THEN [NoRaw EXCEPT !.id = e.sock, !.op = "wait_open",
                                           !.before = "OPENING", !.exc = e.exc,
                                           !.cause = e.cause, !.io = TRUE]
                        ELSE NoRaw
    /\ tcpPc' = "idle"
    /\ hist' = "other"
    /\ UNCHANGED rawBuffer
    /\ UNCHANGED notTcp

\* TCP.close
TcpClose ==
    /\ tcpPc = "idle"
    /\ tcpSock # 0
    /\ rawState' = [rawState EXCEPT ![tcpSock] = "CLOSED"]
    /\ rawBuffer' = [rawBuffer EXCEPT ![tcpSock] = <<>>]
    /\ hist' = "other"
    /\ call' = [NoCall EXCEPT !.op = "close", !.result = "ok"]
    /\ lastRaw' = [NoRaw EXCEPT !.id = tcpSock, !.op = "close",
                                !.before = rawState[tcpSock]]
    /\ UNCHANGED <<tcpSock, connection_counter, tcpPc>>
    /\ UNCHANGED notTcp

\* a public operation of RawTCP invoked on a transport object
RawOp(id, op, n) ==
    /\ tcpPc = "idle"
    /\ rawState[id] # "NONE"
    /\ \E in \in Inputs(Obj(id), op, n) :
       LET r == CheckOpen(Obj(id), op, n, in)
       IN /\ rawState' = [rawState EXCEPT ![id] = r.t.state]
          /\ rawBuffer' = [rawBuffer EXCEPT ![id] = r.t.buffer]
          /\ lastRaw' = RawDone(id, op, rawState[id], r)
    /\ hist' = "other"
    /\ call' = NoCall
    /\ UNCHANGED <<tcpSock, connection_counter, tcpPc>>
    /\ UNCHANGED notTcp

\* RawTCP.wait_open invoked on a transport object
RawWaitOpen(id, oc) ==
    /\ tcpPc = "idle"
    /\ rawState[id] # "NONE"
    /\ rawState[id] # "OPENING" => oc = "ok"
    /\ LET r == WaitOpen(Obj(id), oc)
       IN /\ rawState' = [rawState EXCEPT ![id] = r.t.state]
          /\ lastRaw' = RawDone(id, "wait_open", rawState[id], r)
    /\ hist' = "other"
    /\ call' = NoCall
    /\ UNCHANGED <<rawBuffer, tcpSock, connection_counter, tcpPc>>
    /\ UNCHANGED notTcp

\* RawTCP.close (also what __del__ runs) on a transport object
RawCloseOp(id) ==
    /\ tcpPc = "idle"
    /\ rawState[id] # "NONE"
    /\ rawState' = [rawState EXCEPT ![id] = RawClose(Obj(id)).state]
    /\ rawBuffer' = [rawBuffer EXCEPT ![id] = RawClose(Obj(id)).buffer]
    /\ hist' = "other"
    /\ call' = NoCall
    /\ lastRaw' = [NoRaw EXCEPT !.id = id, !.op = "close", !.before = rawState[id]]
    /\ UNCHANGED <<tcpSock, connection_counter, tcpPc>>
    /\ UNCHANGED notTcp

TcpInit ==
    /\ rawState = [id \in RawIds |-> "NONE"]
    /\ rawBuffer = [id \in RawIds |-> <<>>]
    /\ tcpSock = 0
    /\ connection_counter = 0
    /\ tcpPc = "idle"
    /\ call = NoCall
    /\ lastRaw = NoRaw
    /\ hist = "none"

TcpNext ==
    \/ \E op \in RawOps, co \in ConnOutcomes : \E n \in Blocks(op) : TcpBegin(op, n, co)
    \/ TcpTry1
    \/ \E co \in ConnOutcomes : TcpReconnect(co)
    \/ TcpTry2
    \/ \E co \in ConnOutcomes : TcpConnect(co)
    \/ TcpClose
    \/ \E id \in RawIds, op \in RawOps : \E n \in Blocks(op) : RawOp(id, op, n)
    \/ \E id \in RawIds, oc \in OpenOutcomes : RawWaitOpen(id, oc)
    \/ \E id \in RawIds : RawCloseOp(id)

(***************************************************************************)
(* Group accessors and the ensure_power scope (icepap/group.py,            *)
(* icepap/utils.py).                                                       *)
(***************************************************************************)
Axes == 1..NAxes

\* the groups: the non-empty lists of distinct axes
Groups == {g \in SeqsUpTo(Axes, NAxes) :
             g # <<>> /\ \A i, j \in DOMAIN g : i # j => g[i] # g[j]}

Range(f) == {f[i] : i \in DOMAIN f}

\* a value read from the controller, or the default put in its place
Some(v) == [known |-> TRUE, val |-> v]
NoneOf(v) == [known |-> FALSE, val |-> v]

\* how the query of one axis may end: answered, RuntimeError (the reply is
\* an error, or the communication failed), or another exception
AxisOutcomes == {"ok", "RuntimeError", "other"}

\* the per-axis loop of get_ctrl_item: the first exception that is no
\* RuntimeError leaves the loop and the function
RECURSIVE PerAxis(_, _, _, _, _)
PerAxis(vals, axes, outc, default, acc) ==
    IF axes = <<>> THEN [exc |-> "none", values |-> acc]
    ELSE LET a == Head(axes)
         IN IF outc[a] = "other" THEN [exc |-> "other", values |-> <<>>]
            ELSE PerAxis(vals, Tail(axes), outc, default,
                         Append(acc, IF outc[a] = "ok" THEN Some(vals[a])
                                     ELSE default))

\* get_ctrl_item(f, axes, default): the fan-out call, and when it raises the
\* queries axis by axis
GetCtrlItem(vals, axes, fanFail, outc, default) ==
    IF ~fanFail
    THEN [exc |-> "none", values |-> [i \in DOMAIN axes |-> Some(vals[axes[i]])]]
    ELSE PerAxis(vals, axes, outc, default, <<>>)

\* Group.get_power: get_ctrl_item(controller.get_power, axes), default None
GetPower(g, fanFail, outc) == GetCtrlItem(power, g, fanFail, outc, NoneOf(FALSE))

\* ensure_power, line 163: the axes whose power is not the wanted one
ToPower(g, powers, on) ==
    LET idx == SelectSeq([i \in DOMAIN g |-> i],
                         LAMBDA i : ~powers[i].known \/ powers[i].val # on)
    IN [k \in DOMAIN idx |-> g[idx[k]]]

\* IcePAPController.set_power on the controller: POWER ON|OFF <axes>
SetPower(pw, axes, on) == [a \in Axes |-> IF a \in Range(axes) THEN on ELSE pw[a]]

NoScope == [axes |-> <<>>, on |-> TRUE, to_power |-> <<>>,
            entry |-> [a \in Axes |-> FALSE], cmds |-> <<>>, how |-> "none"]

Cmd(axes, on, ack) == [axes |-> axes, on |-> on, ack |-> ack]

\* the inputs of the power query of g: the per-axis outcomes count only when
\* the fan-out call failed, and only for the axes of g
QueryInputs(g) ==
    {[fanFail |-> FALSE, outc |-> [a \in Axes |-> "ok"]]}
        \cup {[fanFail |-> TRUE, outc |-> o] :
                o \in {o \in [Axes -> AxisOutcomes] :
                         \A a \in Axes \ Range(g) : o[a] = "ok"}}

\* ensure_power, lines 160-167: entering the scope.  ack: the controller
\* acknowledges the POWER command; when it does not, set_power raises and
\* the scope is never entered.
PwEnter(g, on, in, ack) ==
    /\ pwPc = "out"
    /\ LET q == GetPower(g, in.fanFail, in.outc)
           tp == ToPower(g, q.values, on)
           sc == [axes |-> g, on |-> on, to_power |-> <<>>, entry |-> power,
                  cmds |-> <<>>, how |-> "none"]
       IN IF q.exc # "none"
          THEN /\ ack
               /\ scope' = [sc EXCEPT !.how = "query_raised"]
               /\ UNCHANGED <<power, pwPc>>
          ELSE IF tp = <<>>
          THEN /\ ack
               /\ scope' = sc
               /\ pwPc' = "body"
               /\ UNCHANGED power
          ELSE IF ack
          THEN /\ power' = SetPower(power, tp, on)
               /\ scope' = [sc EXCEPT !.to_power = tp,
                                      !.cmds = <<Cmd(tp, on, TRUE)>>]
               /\ pwPc' = "body"
          ELSE /\ scope' = [sc EXCEPT !.to_power = tp,
                                      !.cmds = <<Cmd(tp, on, FALSE)>>,
                                      !.how = "entry_raised"]
               /\ UNCHANGED <<power, pwPc>>
    /\ UNCHANGED notPow

\* ensure_power, lines 166-170: the body ends (how: "normal", or
\* "exception" thrown into the generator) and the finally clause runs
PwExit(how, ack) ==
    /\ pwPc = "body"
    /\ pwPc' = "out"
    /\ IF scope.to_power = <<>>
       THEN /\ ack
            /\ scope' = [scope EXCEPT !.how = how]
            /\ UNCHANGED power
       ELSE /\ power' = IF ack THEN SetPower(power, scope.to_power, ~scope.on)
                        ELSE power
            /\ scope' = [scope EXCEPT
                           !.how = how,
                           !.cmds = Append(@, Cmd(scope.to_power, ~scope.on, ack))]
    /\ UNCHANGED notPow

PowInit ==
    /\ power \in [Axes -> BOOLEAN]
    /\ pwPc = "out"
    /\ scope = NoScope

PowNext ==
    \/ \E g \in Groups, on \in BOOLEAN, ack \in BOOLEAN :
          \E in \in QueryInputs(g) : PwEnter(g, on, in, ack)
    \/ \E how \in {"normal", "exception"}, ack \in BOOLEAN : PwExit(how, ack)

\* the power side at rest, for the specifications that do not move it
PowIdle == power = [a \in Axes |-> FALSE] /\ pwPc = "out" /\ scope = NoScope

(***************************************************************************)
(* icepap/communication.py: texts.  A text is a sequence of symbols; a     *)
(* symbol is one byte, except the word ERROR, which is kept whole.         *)
(***************************************************************************)
CR == "\r"
LF == "\n"

\* the bytes str.split() takes as separators
Whitespace == {" ", "\t", CR, LF}

\* sub in s
Contains(s, sub) ==
    \E i \in 1..(Len(s) + 1 - Len(sub)) : SubSeq(s, i, i + Len(sub) - 1) = sub

\* s.find(sub) + 1: the position of the first occurrence, 0 when there is none
Find(s, sub) ==
    IF Contains(s, sub)
    THEN CHOOSE i \in 1..(Len(s) + 1 - Len(sub)) :
            /\ SubSeq(s, i, i + Len(sub) - 1) = sub
            /\ \A j \in 1..(i - 1) : SubSeq(s, j, j + Len(sub) - 1) # sub
    ELSE 0

\* s.count(c) for a one-byte c
Count(s, c) == Cardinality({i \in 1..Len(s) : s[i] = c})

\* s.split(sep)
RECURSIVE Split(_, _)
Split(s, sep) ==
    LET i == Find(s, sep)
    IN  IF i = 0 THEN <<s>>
        ELSE <<SubSeq(s, 1, i - 1)>> \o Split(SubSeq(s, i + Len(sep), Len(s)), sep)

\* s.split(): the words between runs of whitespace
RECURSIVE SplitWords(_)
SplitWords(s) ==
    IF s = <<>> THEN <<>>
    ELSE IF s[1] \in Whitespace THEN SplitWords(Tail(s))
    ELSE LET stops == {i \in 1..Len(s) : s[i] \in Whitespace}
             end == IF stops = {} THEN Len(s) + 1
                    ELSE CHOOSE i \in stops : \A j \in stops : i <= j
         IN  <<SubSeq(s, 1, end - 1)>> \o SplitWords(SubSeq(s, end, Len(s)))

\* list[a:b] with Python's 0-based, end-exclusive indices given as 1-based
Slice(l, from, to) == IF from > to THEN <<>> ELSE SubSeq(l, from, to)

\* the commands the threads send: a query, a write, a write the controller
\* does not acknowledge
Commands == {<<"?", "P">>, <<"M">>, <<"PROG">>}

\* communication.py lines 84-90: the unacknowledged commands
bad_cmds == {"PROG", "*PROG", "RESET", ":"}

\* communication.py lines 73-90: the bytes written and whether an
\* acknowledge is expected
Frame(cmd) ==
    LET flg_read_cmd == Contains(cmd, <<"?">>)
        flg_dat_cmd == \E d \in {"*ECAMDAT", "*LISTDAT", "*PARDAT"} :
                          Contains(cmd, <<d>>)
        starts_bad == cmd # <<>> /\ cmd[1] \in bad_cmds
    IN  IF flg_read_cmd \/ starts_bad \/ flg_dat_cmd
        THEN [data |-> cmd \o <<CR>>, use_ack |-> FALSE]
        ELSE [data |-> <<"#">> \o cmd \o <<CR>>, use_ack |-> TRUE]

\* communication.py line 179
WaitAnswer_HashOnly(data) == Contains(data, <<"#">>)

WaitAnswer(data) == Contains(data, <<"#">>) \/ Contains(data, <<"?">>)

\* what _send_data hands back: None, or the decoded text
AnsNone == [none |-> TRUE, s |-> <<>>]
AnsText(s) == [none |-> FALSE, s |-> s]

\* what send_cmd gives its caller
Outcome(out, val) == [out |-> out, val |-> val]

\* communication.py lines 92-115: the reply as send_cmd returns it
SendCmdResult(use_ack, ans) ==
    IF use_ack
    THEN IF ~Contains(ans.s, <<"O", "K">>)
         THEN Outcome("raise", <<>>)
         ELSE Outcome("None", <<>>)
    ELSE IF ans.none THEN Outcome("None", <<>>)
    ELSE IF Contains(ans.s, <<"$">>)
    THEN LET body == Split(ans.s, <<"$">>)[2]
             parts == Split(body, <<LF>>)
             lines == Slice(parts, 2, Len(parts) - 1)
         IN  Outcome("list", [i \in 1..Len(lines) |-> Split(lines[i], <<CR>>)[1]])
    ELSE LET first == Split(ans.s, <<CR, LF>>)[1]
             result == Tail(SplitWords(first))
         IN  IF SplitWords(first) = <<>> \/ result = <<>>
             THEN Outcome("None", <<>>)
             ELSE IF result[1] = <<"ERROR">>
             THEN Outcome("raise", <<>>)
             ELSE Outcome("list", result)

\* the controller's replies to the bytes of one command: none to a command
\* it does not acknowledge, else the echo of the command and a result
ReplyOK(cmd) == cmd \o <<" ", "O", "K", CR, LF>>
ReplyError(cmd) == cmd \o <<" ", "ERROR", " ", "X", CR, LF>>
ReplyErrorNok(cmd) == cmd \o <<" ", "ERROR", " ", "N", "O", "K", CR, LF>>
ReplyValue(cmd) == cmd \o <<" ", "5", CR, LF>>
ReplyLines(cmd) ==
    cmd \o <<" ", "$", CR, LF, "A", CR, LF, "B", CR, LF, "$", CR, LF>>

Replies(cmd) ==
    LET f == Frame(cmd)
    IN  IF f.use_ack THEN {ReplyOK(cmd), ReplyError(cmd), ReplyErrorNok(cmd)}
        ELSE IF WaitAnswer(f.data)
        THEN {ReplyValue(cmd), ReplyError(cmd), ReplyLines(cmd)}
        ELSE {<<>>}

(***************************************************************************)
(* icepap/communication.py: SocketCom.                                     *)
(***************************************************************************)
\* the threads that call send_cmd, and the _try_to_connect threads that
\* can be alive at one time
Threads == {"t1", "t2"}
ConnThreads == {"k1", "k2"}

SockIds == 1..MaxSock

\* the state of a thread that is not inside send_cmd; reply is the reply
\* the controller sent to the command, eof tells that the last recv was
\* the empty read of a closed connection
NoCmd == [n |-> 0, cmd |-> <<>>, use_ack |-> FALSE, wait |-> FALSE,
          answer |-> <<>>, reply |-> <<>>, eof |-> FALSE]

\* a finished command: what was sent, what the controller replied, and
\* what send_cmd gave its caller
Done(c, out, val) == [n |-> c.n, cmd |-> c.cmd, use_ack |-> c.use_ack,
                      reply |-> c.reply, out |-> out, val |-> val]

NoIo == [kind |-> "none", others |-> {}]

\* the bytes of a reply on the wire, each with the number of its command
Tagged(s, n) == [i \in 1..Len(s) |-> [b |-> s[i], n |-> n]]
Bytes_(w) == [i \in 1..Len(w) |-> w[i].b]
Owners(w) == {w[i].n : i \in 1..Len(w)} \ {0}

\* the reply bytes of command n that nobody will claim any more
Abandon(w, n) ==
    [i \in 1..Len(w) |-> IF w[i].n = n THEN [w[i] EXCEPT !.n = 0] ELSE w[i]]

FreeConn == {k \in ConnThreads : ct[k] = "off"}

\* communication.py lines 205-210: _start_thread
StartThread == [ct EXCEPT ![CHOOSE k \in FreeConn : TRUE] = "c1"]

\* communication.py line 257: "with self._lock" lets a thread in
LockFree(l) == l = "free"

\* communication.py lines 310-313: the exception leaves the lock, starts
\* the reconnection thread and is raised as a RuntimeError ("error": the
\* communication failed; "raise" is send_cmd refusing a reply it has read)
Raise(t) ==
    /\ FreeConn # {}
    /\ ct' = StartThread
    /\ lock' = IF lock = t THEN "free" ELSE lock
    /\ pc' = [pc EXCEPT ![t] = "idle"]
    /\ th' = [th EXCEPT ![t] = NoCmd]
    /\ done' = Done(th[t], "error", <<>>)

\* _send_data returns ans and send_cmd (lines 92-115) turns it into the result
Return(t, ans) ==
    LET r == SendCmdResult(th[t].use_ack, ans)
    IN  /\ lock' = "free"
        /\ pc' = [pc EXCEPT ![t] = "idle"]
        /\ th' = [th EXCEPT ![t] = NoCmd]
        /\ done' = Done(th[t], r.out, r.val)
        /\ UNCHANGED ct

\* IcePAPCommunication.send_cmd lines 73-91, SocketCom.send_cmd lines
\* 179-180, _send_data lines 246-254: frame the command, test connected
ComSendCmd(t, cmd) ==
    /\ pc[t] = "idle"
    /\ issued < MaxCmds
    /\ issued' = issued + 1
    /\ LET f == Frame(cmd)
           c == [NoCmd EXCEPT !.n = issued + 1, !.cmd = cmd,
                              !.use_ack = f.use_ack,
                              !.wait = WaitAnswer(f.data)]
       IN  IF connected
           THEN /\ th' = [th EXCEPT ![t] = c]
                /\ pc' = [pc EXCEPT ![t] = "lock"]
                /\ UNCHANGED <<ct, done>>
           ELSE /\ FreeConn # {}
                /\ ct' = StartThread
                /\ done' = Done(c, "error", <<>>)
                /\ UNCHANGED <<pc, th>>
    /\ UNCHANGED <<skState, wire, peer, socket_, connected, stop_thread,
                   lock, lastIo>>
    /\ UNCHANGED notCom

\* _send_data line 257: with self._lock
ComAcquire(t) ==
    /\ pc[t] = "lock"
    /\ LockFree(lock)
    /\ lock' = t
    /\ pc' = [pc EXCEPT ![t] = "send"]
    /\ UNCHANGED <<skState, wire, peer, socket_, connected, stop_thread, th,
                   done, ct, issued, lastIo>>
    /\ UNCHANGED notCom

\* _send_data lines 258-272: sendall; the controller answers the command
\* it received; a command that waits for no answer returns None
ComWrite(t, ok) ==
    /\ pc[t] = "send"
    /\ lastIo' = [kind |-> "write",
                  others |-> IF ok THEN Owners(wire[socket_]) \ {th[t].n}
                                   ELSE {}]
    /\ IF ok
       THEN /\ skState[socket_] = "conn"
            /\ \E reply \in IF peer[socket_] = "up" THEN Replies(th[t].cmd)
                                                    ELSE {<<>>} :
                  /\ wire' = [wire EXCEPT ![socket_] =
                                 @ \o Tagged(reply, th[t].n)]
                  /\ IF th[t].wait
                     THEN /\ pc' = [pc EXCEPT ![t] = "recv"]
                          /\ th' = [th EXCEPT ![t].reply = reply]
                          /\ UNCHANGED <<lock, ct, done>>
                     ELSE Return(t, AnsNone)
       ELSE /\ Raise(t)
            /\ UNCHANGED wire
    /\ UNCHANGED <<skState, peer, socket_, connected, stop_thread, issued>>
    /\ UNCHANGED notCom

\* one socket.recv of the thread that holds the lock: k > 0 bytes arrive,
\* k = 0 is the empty read after the peer closed, k < 0 is socket.timeout
\* or another OSError
RecvOutcomes == {k \in -1..Len(wire[socket_]) :
                    \/ k < 0
                    \/ /\ k = 0
                       /\ skState[socket_] = "conn"
                       /\ peer[socket_] = "fin"
                       /\ wire[socket_] = <<>>
                    \/ /\ k > 0
                       /\ skState[socket_] = "conn"}

Received(k) == IF k > 0 THEN SubSeq(wire[socket_], 1, k) ELSE <<>>

\* the wire after the recv; a thread that raises leaves its reply behind
AfterRecv(t, k) ==
    IF k < 0 THEN [s \in SockIds |-> Abandon(wire[s], th[t].n)]
    ELSE [wire EXCEPT ![socket_] = SubSeq(@, k + 1, Len(@))]

ReadIo(t, k) == [kind |-> "read",
                 others |-> Owners(Received(k)) \ {th[t].n}]

\* _send_data lines 273-275 and 309-310: the first recv; the answer is
\* returned unless it holds one "$"
ComRecv(t) ==
    /\ pc[t] = "recv"
    /\ \E k \in RecvOutcomes :
          /\ lastIo' = ReadIo(t, k)
          /\ wire' = AfterRecv(t, k)
          /\ LET answer == Bytes_(Received(k))
             IN  IF k < 0 THEN Raise(t)
                 ELSE IF Count(answer, "$") > 0 /\ Count(answer, "$") < 2
                 THEN /\ pc' = [pc EXCEPT ![t] = "more"]
                      /\ th' = [th EXCEPT ![t].answer = answer]
                      /\ UNCHANGED <<lock, ct, done>>
                 ELSE Return(t, AnsText(answer))
    /\ UNCHANGED <<skState, peer, socket_, connected, stop_thread, issued>>
    /\ UNCHANGED notCom

\* _send_data lines 307-310: while answer.count(b'$') < 2: one more recv
ComRecvMore(t) ==
    /\ pc[t] = "more"
    /\ \E k \in RecvOutcomes :
          /\ lastIo' = ReadIo(t, k)
          /\ wire' = AfterRecv(t, k)
          /\ LET answer == th[t].answer \o Bytes_(Received(k))
             IN  IF k < 0 THEN Raise(t)
                 ELSE IF Count(answer, "$") < 2
                 THEN /\ th' = [th EXCEPT ![t].answer = answer,
                                          ![t].eof = (k = 0)]
                      /\ UNCHANGED <<pc, lock, ct, done>>
                 ELSE Return(t, AnsText(answer))
    /\ UNCHANGED <<skState, peer, socket_, connected, stop_thread, issued>>
    /\ UNCHANGED notCom

\* _try_to_connect lines 213-214
ConnReset(k) ==
    /\ ct[k] = "c1"
    /\ connected' = FALSE
    /\ ct' = [ct EXCEPT ![k] = "c2"]
    /\ UNCHANGED <<skState, wire, peer, socket_, stop_thread, lock, pc, th,
                   done, issued, lastIo>>
    /\ UNCHANGED notCom

\* socket.close(): the object is closed and its unread bytes are dropped
Closed(sk, s) == IF s = 0 THEN sk ELSE [sk EXCEPT ![s] = "closed"]
Dropped(w, s) == IF s = 0 THEN w ELSE [w EXCEPT ![s] = <<>>]

\* _try_to_connect lines 216-220
ConnClose(k) ==
    /\ ct[k] = "c2"
    /\ skState' = Closed(skState, socket_)
    /\ wire' = Dropped(wire, socket_)
    /\ ct' = [ct EXCEPT ![k] = "c3"]
    /\ UNCHANGED <<peer, socket_, connected, stop_thread, lock, pc, th,
                   done, issued, lastIo>>
    /\ UNCHANGED notCom

FreeSock == {s \in SockIds : skState[s] = "none"}

\* _try_to_connect lines 221-226: the loop test and the new socket
ConnSocket(k) ==
    /\ ct[k] = "c3"
    /\ IF stop_thread
       THEN /\ ct' = [ct EXCEPT ![k] = "off"]
            /\ UNCHANGED <<skState, socket_>>
       ELSE /\ FreeSock # {}
            /\ LET s == CHOOSE x \in FreeSock : \A y \in FreeSock : x <= y
               IN  /\ socket_' = s
                   /\ skState' = [skState EXCEPT ![s] = "fresh"]
            /\ ct' = [ct EXCEPT ![k] = "c4"]
    /\ UNCHANGED <<wire, peer, connected, stop_thread, lock, pc, th, done,
                   issued, lastIo>>
    /\ UNCHANGED notCom

\* _try_to_connect lines 227-243: connect; these threads run with
\* wait=True, so a timeout sleeps and tries again
ConnConnect(k, oc) ==
    /\ ct[k] = "c4"
    /\ \/ /\ oc = "ok"
          /\ skState[socket_] = "fresh"
          /\ skState' = [skState EXCEPT ![socket_] = "conn"]
          /\ peer' = [peer EXCEPT ![socket_] = "up"]
          /\ connected' = TRUE
          /\ ct' = [ct EXCEPT ![k] = "off"]
       \/ /\ oc = "timeout"
          /\ skState[socket_] = "fresh"
          /\ ct' = [ct EXCEPT ![k] = "c3"]
          /\ UNCHANGED <<skState, peer, connected>>
       \/ /\ oc = "OSError"
          /\ ct' = [ct EXCEPT ![k] = "off"]
          /\ UNCHANGED <<skState, peer, connected>>
    /\ UNCHANGED <<wire, socket_, stop_thread, lock, pc, th, done, issued,
                   lastIo>>
    /\ UNCHANGED notCom

\* the controller closes a connection, possibly before it has sent all of
\* a reply: what it sent before can still be read, then every recv returns
\* the empty bytes
PeerClose(s) ==
    /\ skState[s] = "conn"
    /\ peer[s] = "up"
    /\ peer' = [peer EXCEPT ![s] = "fin"]
    /\ \E sent \in 0..Len(wire[s]) :
          wire' = [wire EXCEPT ![s] = SubSeq(@, 1, sent)]
    /\ UNCHANGED <<skState, socket_, connected, stop_thread, lock, pc, th,
                   done, ct, issued, lastIo>>
    /\ UNCHANGED notCom

\* SocketCom.disconnect lines 163-166
ComDisconnect ==
    /\ ~stop_thread
    /\ skState' = Closed(skState, socket_)
    /\ wire' = Dropped(wire, socket_)
    /\ connected' = FALSE
    /\ stop_thread' = TRUE
    /\ UNCHANGED <<peer, socket_, lock, pc, th, done, ct, issued, lastIo>>
    /\ UNCHANGED notCom

\* SocketCom.__init__ lines 140-160 has returned: the first connection is up
ComInit ==
    /\ skState = [s \in SockIds |-> IF s = 1 THEN "conn" ELSE "none"]
    /\ wire = [s \in SockIds |-> <<>>]
    /\ peer = [s \in SockIds |-> IF s = 1 THEN "up" ELSE "none"]
    /\ socket_ = 1
    /\ connected = TRUE
    /\ stop_thread = FALSE
    /\ lock = "free"
    /\ pc = [t \in Threads |-> "idle"]
    /\ th = [t \in Threads |-> NoCmd]
    /\ done = Done(NoCmd, "none", <<>>)
    /\ ct = [k \in ConnThreads |-> "off"]
    /\ issued = 0
    /\ lastIo = NoIo

ComNext ==
    \/ \E t \in Threads, cmd \in Commands : ComSendCmd(t, cmd)
    \/ \E t \in Threads : ComAcquire(t)
    \/ \E t \in Threads, ok \in BOOLEAN : ComWrite(t, ok)
    \/ \E t \in Threads : ComRecv(t)
    \/ \E t \in Threads : ComRecvMore(t)
    \/ \E k \in ConnThreads : ConnReset(k)
    \/ \E k \in ConnThreads : ConnClose(k)
    \/ \E k \in ConnThreads : ConnSocket(k)
    \/ \E k \in ConnThreads, oc \in {"ok", "timeout", "OSError"} :
          ConnConnect(k, oc)
    \/ \E s \in SockIds : PeerClose(s)
    \/ ComDisconnect

(***************************************************************************)
(* icepap/communication.py: how send_cmd frames a command text and whether  *)
(* SocketCom.send_cmd reads a reply for it.                                *)
(***************************************************************************)
\* the symbols of a command text: the marks the code looks for and one
\* other word
CmdSymbols == {"?", "#", "M"} \cup bad_cmds
                 \cup {"*ECAMDAT", "*LISTDAT", "*PARDAT"}

CmdTexts == SeqsUpTo(CmdSymbols, MaxCmdLen) \ {<<>>}

NotClassified == [data |-> <<>>, use_ack |-> FALSE, wait |-> FALSE,
                  set |-> FALSE]

\* IcePAPCommunication.send_cmd lines 73-91 and SocketCom.send_cmd lines
\* 179-180
Classify ==
    /\ ~clsOut.set
    /\ LET f == Frame(clsCmd)
       IN  clsOut' = [data |-> f.data, use_ack |-> f.use_ack,
                      wait |-> WaitAnswer(f.data), set |-> TRUE]
    /\ UNCHANGED clsCmd
    /\ UNCHANGED notCls

ClsInit == clsCmd \in CmdTexts /\ clsOut = NotClassified

ClsIdle == clsCmd = <<"M">> /\ clsOut = NotClassified

ClsNext == Classify

(***************************************************************************)
(* The CLI move (icepap/cli/progress_bar.py _move): the outer ensure_power *)
(* scope, the MotionHandler, and inside them the generator gen_move with   *)
(* its own ensure_power scope and the polling loop gen_motion              *)
(* (icepap/group.py).                                                      *)
(***************************************************************************)
\* Group.get_states: get_ctrl_item(controller.get_states, axes, State(0));
\* a state is kept as its moving bit, and State(0) is not moving
GetStates_DefaultMoving(g, fanFail, outc) ==
    GetCtrlItem(moving, g, fanFail, outc, Some(TRUE))

GetStates(g, fanFail, outc) ==
    GetCtrlItem(moving, g, fanFail, outc, Some(FALSE))

\* utils.is_moving, lines 526-527
is_moving(states) == \E i \in DOMAIN states : states[i].val

\* whether an axis of the group is in motion on the controller
InMotion(g) == \E a \in Range(g) : moving[a]

\* one (states, positions) pair as gen_motion yields it: whether its
\* states report a moving axis
Pair(rep) == [rep |-> rep]

\* the groups the CLI moves: their axes in rising order
MoveGroups == {g \in Groups : \A i, j \in DOMAIN g : i < j => g[i] < g[j]}

\* the pairs yielded so far with one more; of a long run the first pair and
\* the last MaxPolls - 1 pairs are kept
Yielded(ys, p) ==
    IF Len(ys) < MaxPolls THEN Append(ys, p)
    ELSE <<ys[1]>> \o SubSeq(ys, 3, Len(ys)) \o <<p>>

\* the exit of an ensure_power scope: whether it sent a POWER command,
\* whether STOP had been sent before, whether an axis was still in motion
NoExit == [done |-> FALSE, switched |-> FALSE, afterStop |-> FALSE,
           inMotion |-> FALSE]

NoMove == [g |-> <<>>, entry |-> [a \in Axes |-> FALSE],
           outerTo |-> <<>>, innerTo |-> <<>>,
           innerAt |-> [a \in Axes |-> FALSE], innerOpen |-> FALSE,
           exc |-> "none", stopSent |-> FALSE, gen |-> "none",
           innerExit |-> NoExit, outerExit |-> NoExit]

\* ensure_power lines 166-170 for a scope that switched to_power at entry
ScopeExit(to_power) ==
    [done |-> TRUE, switched |-> to_power # <<>>, afterStop |-> mv.stopSent,
     inMotion |-> InMotion(mv.g)]

PowerAfterExit(to_power) ==
    IF to_power = <<>> THEN mvPower ELSE SetPower(mvPower, to_power, FALSE)

\* _move line 229-230: "with prog_bar, power, handler": the outer scope is
\* entered (ensure_power lines 160-165, on=True)
MvOuterEnter(g) ==
    /\ mvPc = "start"
    /\ \E in \in QueryInputs(g) :
          LET q == GetCtrlItem(mvPower, g, in.fanFail, in.outc, NoneOf(FALSE))
              tp == ToPower(g, q.values, TRUE)
          IN  IF q.exc # "none"
              THEN /\ mvPc' = "end"
                   /\ mv' = [mv EXCEPT !.g = g, !.entry = mvPower,
                                       !.exc = "entry"]
                   /\ UNCHANGED mvPower
              ELSE /\ mvPc' = "body"
                   /\ mv' = [mv EXCEPT !.g = g, !.entry = mvPower,
                                       !.outerTo = tp]
                   /\ mvPower' = SetPower(mvPower, tp, TRUE)
    /\ UNCHANGED <<moving, yields>>
    /\ UNCHANGED notMove

\* gen_move lines 112-114, reached by the first next() of motion_loop: the
\* inner scope is entered and the motion is started
MvInnerEnter ==
    /\ mvPc = "body"
    /\ \E in \in QueryInputs(mv.g) :
          LET q == GetCtrlItem(mvPower, mv.g, in.fanFail, in.outc,
                               NoneOf(FALSE))
              tp == ToPower(mv.g, q.values, TRUE)
          IN  IF q.exc # "none"
              THEN /\ mvPc' = "error"
                   /\ mv' = [mv EXCEPT !.exc = "inside", !.gen = "raised"]
                   /\ UNCHANGED <<mvPower, moving>>
              ELSE /\ mvPc' = "poll"
                   /\ mv' = [mv EXCEPT !.innerTo = tp, !.innerAt = mvPower,
                                       !.innerOpen = TRUE, !.gen = "running"]
                   /\ mvPower' = SetPower(mvPower, tp, TRUE)
                   /\ moving' = [a \in Axes |-> a \in Range(mv.g)]
    /\ yields' = <<>>
    /\ UNCHANGED notMove

\* gen_motion lines 128-129 inside gen_move: the states are read and the
\* pair is yielded; an exception of the query leaves gen_move through its
\* ensure_power scope
MvPoll ==
    /\ mvPc = "poll"
    /\ \E in \in QueryInputs(mv.g) :
          LET q == GetStates(mv.g, in.fanFail, in.outc)
          IN  IF q.exc # "none"
              THEN /\ mvPc' = "error"
                   /\ mv' = [mv EXCEPT !.exc = "inside", !.gen = "raised",
                                       !.innerOpen = FALSE,
                                       !.innerExit = ScopeExit(mv.innerTo)]
                   /\ mvPower' = PowerAfterExit(mv.innerTo)
                   /\ UNCHANGED yields
              ELSE /\ mvPc' = "yielded"
                   /\ yields' = Yielded(yields,
                                   Pair(is_moving(q.values)))
                   /\ UNCHANGED <<mv, mvPower>>
    /\ UNCHANGED moving
    /\ UNCHANGED notMove

\* gen_motion lines 130-131 inside gen_move, when motion_loop asks for the
\* next pair: go on polling, or end; the end of gen_move leaves its scope,
\* then the handler runs on_ok and always (MotionHandler lines 138-143)
MvResume ==
    /\ mvPc = "yielded"
    /\ IF yields[Len(yields)].rep
       THEN /\ mvPc' = "poll"
            /\ UNCHANGED <<mv, mvPower>>
       ELSE /\ mvPc' = "exit"
            /\ mv' = [mv EXCEPT !.gen = "ended", !.innerOpen = FALSE,
                                !.innerExit = ScopeExit(mv.innerTo)]
            /\ mvPower' = PowerAfterExit(mv.innerTo)
    /\ UNCHANGED <<moving, yields>>
    /\ UNCHANGED notMove

\* an exception that is no result of a query ends the motion loop, for
\* example KeyboardInterrupt: raised while gen_move runs it leaves gen_move
\* through its ensure_power scope; raised in motion_loop or in
\* gen_rate_limiter it leaves gen_move suspended at its yield
MvInterrupt ==
    /\ mvPc \in {"poll", "yielded"}
    /\ mvPc' = "error"
    /\ IF mvPc = "poll"
       THEN /\ mv' = [mv EXCEPT !.exc = "inside", !.gen = "raised",
                                !.innerOpen = FALSE,
                                !.innerExit = ScopeExit(mv.innerTo)]
            /\ mvPower' = PowerAfterExit(mv.innerTo)
       ELSE /\ mv' = [mv EXCEPT !.exc = "outside", !.gen = "suspended"]
            /\ UNCHANGED mvPower
    /\ UNCHANGED <<moving, yields>>
    /\ UNCHANGED notMove

\* MotionHandler.__exit__ lines 138-142 and on_error lines 210-212:
\* group.start_stop(), then the second gen_motion is started
MvOnError ==
    /\ mvPc = "error"
    /\ mvPc' = "dpoll"
    /\ mv' = [mv EXCEPT !.stopSent = TRUE, !.gen = "running"]
    /\ yields' = <<>>
    /\ UNCHANGED <<mvPower, moving>>
    /\ UNCHANGED notMove

\* on_error line 219, gen_motion lines 128-129: one poll of the second loop
MvDrainPoll ==
    /\ mvPc = "dpoll"
    /\ \E in \in QueryInputs(mv.g) :
          LET q == GetStates(mv.g, in.fanFail, in.outc)
          IN  IF q.exc # "none"
              THEN /\ mvPc' = "exit"
                   /\ mv' = [mv EXCEPT !.gen = "raised"]
                   /\ UNCHANGED yields
              ELSE /\ mvPc' = "dyielded"
                   /\ yields' = Yielded(yields,
                                   Pair(is_moving(q.values)))
                   /\ UNCHANGED mv
    /\ UNCHANGED <<mvPower, moving>>
    /\ UNCHANGED notMove

\* gen_motion lines 130-131 in the second loop; when it ends on_error
\* returns and always runs (MotionHandler line 143)
MvDrainResume ==
    /\ mvPc = "dyielded"
    /\ IF yields[Len(yields)].rep
       THEN /\ mvPc' = "dpoll"
            /\ UNCHANGED mv
       ELSE /\ mvPc' = "exit"
            /\ mv' = [mv EXCEPT !.gen = "ended"]
    /\ UNCHANGED <<mvPower, moving, yields>>
    /\ UNCHANGED notMove

\* the outer scope is left (ensure_power lines 166-170); afterwards the
\* exception, when there is one, propagates out of _move
MvOuterExit ==
    /\ mvPc = "exit"
    /\ mvPc' = IF mv.innerOpen THEN "gc" ELSE "end"
    /\ mv' = [mv EXCEPT !.outerExit = ScopeExit(mv.outerTo)]
    /\ mvPower' = PowerAfterExit(mv.outerTo)
    /\ UNCHANGED <<moving, yields>>
    /\ UNCHANGED notMove

\* the suspended gen_move is finalised once nothing refers to it: its
\* ensure_power scope is left then
MvFinalise ==
    /\ mvPc = "gc"
    /\ mvPc' = "end"
    /\ mv' = [mv EXCEPT !.innerOpen = FALSE,
                        !.innerExit = ScopeExit(mv.innerTo)]
    /\ mvPower' = PowerAfterExit(mv.innerTo)
    /\ UNCHANGED <<moving, yields>>
    /\ UNCHANGED notMove

\* the controller: an axis reaches its target or comes to rest after STOP
MvAxisStops(a) ==
    /\ moving[a]
    /\ moving' = [moving EXCEPT ![a] = FALSE]
    /\ UNCHANGED <<mvPc, mvPower, mv, yields>>
    /\ UNCHANGED notMove

MoveInit ==
    /\ mvPc = "start"
    /\ mvPower \in [Axes -> BOOLEAN]
    /\ moving = [a \in Axes |-> FALSE]
    /\ mv = NoMove
    /\ yields = <<>>

MoveIdle ==
    /\ mvPc = "start"
    /\ mvPower = [a \in Axes |-> FALSE]
    /\ moving = [a \in Axes |-> FALSE]
    /\ mv = NoMove
    /\ yields = <<>>

MoveNext ==
    \/ \E g \in MoveGroups : MvOuterEnter(g)
    \/ MvInnerEnter
    \/ MvPoll
    \/ MvResume
    \/ MvInterrupt
    \/ MvOnError
    \/ MvDrainPoll
    \/ MvDrainResume
    \/ MvOuterExit
    \/ MvFinalise
    \/ \E a \in Axes : MvAxisStops(a)

\* the polling loops go on: a loop that can take its next step takes it
MoveFairness ==
    /\ WF_vars(MvPoll)
    /\ WF_vars(MvResume)
    /\ WF_vars(MvDrainPoll)
    /\ WF_vars(MvDrainResume)

(***************************************************************************)
(* The Group accessors (icepap/group.py lines 53-72): each is              *)
(* get_ctrl_item over a controller query (icepap/utils.py lines 548-560).  *)
(***************************************************************************)
\* the values an axis can report
ItemValues == {0, 1}

\* the default of each accessor: State(0) for get_states, None for the rest
Accessors == {"get_states", "get_pos", "get_fpos", "get_acctime",
              "get_velocity", "get_power"}

DefaultOf(acc) == IF acc = "get_states" THEN Some(0) ELSE NoneOf(0)

NoItem == [set |-> FALSE, exc |-> "none", values |-> <<>>]

\* one call of an accessor
GroupAccessor ==
    /\ ~itOut.set
    /\ LET r == GetCtrlItem(itIn.vals, itIn.g, itIn.fanFail, itIn.outc,
                            DefaultOf(itIn.acc))
       IN  itOut' = [set |-> TRUE, exc |-> r.exc, values |-> r.values]
    /\ UNCHANGED itIn
    /\ UNCHANGED notItem

ItemInit ==
    /\ \E acc \in Accessors, g \in Groups, vals \in [Axes -> ItemValues] :
          \E in \in QueryInputs(g) :
             itIn = [acc |-> acc, g |-> g, vals |-> vals,
                     fanFail |-> in.fanFail, outc |-> in.outc]
    /\ itOut = NoItem

ItemIdle ==
    /\ itIn = [acc |-> "get_pos", g |-> <<1>>, vals |-> [a \in Axes |-> 0],
               fanFail |-> FALSE, outc |-> [a \in Axes |-> "ok"]]
    /\ itOut = NoItem

ItemNext == GroupAccessor

(***************************************************************************)
(* The multi-axis queries of IcePAPController (icepap/controller.py lines  *)
(* 432-474, 510-557, 566-576), sent through send_cmd to a controller that  *)
(* answers as tests/patch_socket.py does.                                  *)
(***************************************************************************)
\* get_pos, get_fpos, get_status, get_fstatus, get_power, get_rid, get_rtemp
QueryKinds == {"POS", "FPOS", "STATUS", "FSTATUS", "POWER", "RID", "RTEMP"}

\* the two values an address can hold
QueryValues == {1, 2}

DigitSyms == <<"0", "1", "2", "3", "4", "5", "6", "7", "8", "9">>

\* str(address)
Str(a) == DigitSyms[a + 1]

DigitVal(d) == (CHOOSE i \in 1..Len(DigitSyms) : DigitSyms[i] = d) - 1

IsNumber(tok) == tok # <<>> /\ \A i \in 1..Len(tok) : tok[i] \in Range(DigitSyms)

\* int(tok, base)
RECURSIVE ToInt(_, _)
ToInt(tok, base) ==
    IF tok = <<>> THEN 0
    ELSE ToInt(SubSeq(tok, 1, Len(tok) - 1), base) * base + DigitVal(tok[Len(tok)])

\* the text the controller holds for a value
TokenOf(kind, v) ==
    IF kind = "POWER" THEN (IF v = 1 THEN <<"O", "N">> ELSE <<"O", "F", "F">>)
    ELSE IF v = 1 THEN <<"7">> ELSE <<"7", "3">>

\* controller.py: the command text of a query
QueryCmd(kind, addrs) ==
    LET register == IF kind \in {"POS", "FPOS"} THEN <<" ", "AXIS">> ELSE <<>>
        AddrStr[i \in 0..Len(addrs)] ==
            IF i = 0 THEN <<>> ELSE AddrStr[i - 1] \o <<" ", Str(addrs[i])>>
    IN  <<"?", kind>> \o register \o AddrStr[Len(addrs)]

\* tests/patch_socket.py lines 79-109: the reply holds the echo of the
\* command and the values of the addresses, in the order of the request
DeviceReply(data, vals) ==
    LET args == SplitWords(data)
        kind == args[1][2]
        list == IF Len(args) > 1 /\ args[2] = <<"AXIS">>
                THEN SubSeq(args, 3, Len(args)) ELSE Tail(args)
        Joined[i \in 0..Len(list)] ==
            IF i = 0 THEN <<>>
            ELSE Joined[i - 1] \o <<" ">> \o
                 TokenOf(kind, vals[CHOOSE a \in Axes : <<Str(a)>> = list[i]])
    IN  <<"?", kind>> \o Joined[Len(list)] \o <<CR, LF>>

\* the conversion each query applies to one word of the reply
Convert(kind, tok) ==
    IF kind = "RID" THEN tok
    ELSE IF kind = "POWER" THEN tok = <<"O", "N">>
    ELSE IF kind \in {"STATUS", "FSTATUS"} THEN ToInt(tok, 16)
    ELSE ToInt(tok, 10)

Convertible(kind, tok) == kind \in {"RID", "POWER"} \/ IsNumber(tok)

NoQuery == [set |-> FALSE, exc |-> "none", none |-> FALSE, values |-> <<>>]

QueryResult(exc, none, values) ==
    [set |-> TRUE, exc |-> exc, none |-> none, values |-> values]

\* what a query makes of the result of send_cmd
Converted(kind, r) ==
    IF r.out = "raise" THEN QueryResult("RuntimeError", FALSE, <<>>)
    ELSE IF r.out = "None"
    THEN IF kind = "RID" THEN QueryResult("none", TRUE, <<>>)
         ELSE QueryResult("TypeError", FALSE, <<>>)
    ELSE IF \E i \in 1..Len(r.val) : ~Convertible(kind, r.val[i])
    THEN QueryResult("ValueError", FALSE, <<>>)
    ELSE QueryResult("none", FALSE,
                     [i \in 1..Len(r.val) |-> Convert(kind, r.val[i])])

\* one query: the command is framed and written, the controller replies,
\* the one recv of _send_data returns the first k bytes of the reply
MultiAxisQuery ==
    /\ ~mqOut.set
    /\ LET f == Frame(QueryCmd(mqIn.kind, mqIn.addrs))
           reply == DeviceReply(f.data, mqIn.vals)
       IN  \E k \in 1..Len(reply) :
              mqOut' = Converted(mqIn.kind,
                          SendCmdResult(f.use_ack, AnsText(SubSeq(reply, 1, k))))
    /\ UNCHANGED mqIn
    /\ UNCHANGED notQuery

QueryInit ==
    /\ \E kind \in QueryKinds, addrs \in Groups, vals \in [Axes -> QueryValues] :
          mqIn = [kind |-> kind, addrs |-> addrs, vals |-> vals]
    /\ mqOut = NoQuery

QueryIdle ==
    /\ mqIn = [kind |-> "POS", addrs |-> <<1>>, vals |-> [a \in Axes |-> 1]]
    /\ mqOut = NoQuery

QueryNext == MultiAxisQuery

(***************************************************************************)
(* The axes and aliases of IcePAPController (icepap/controller.py lines    *)
(* 52-129, 289-317).                                                       *)
(***************************************************************************)
\* controller.py line 52
ALL_AXES_VALID == {r * 10 + i : r \in 0..15, i \in 1..8}

\* the addresses the callers name: two axes of rack 0, and index 9 of
\* rack 0, which no rack has
Addresses == {1, 2, 9}

AliasNames == {"th", "tth"}

\* the answers of find_axes: the axes the controller has
AliveSets == SUBSET (Addresses \cap ALL_AXES_VALID)

Registered == DOMAIN axes_

NoOp == [op |-> "none", name |-> "", addr |-> 0, out |-> "ok", handle |-> 0,
         pointed |-> {}, before |-> 0, regBefore |-> {}]

Op(op, name, addr, out, handle, pointed) ==
    [op |-> op, name |-> name, addr |-> addr, out |-> out, handle |-> handle,
     pointed |-> pointed, before |-> written, regBefore |-> Registered]

\* self._axes[item] = IcePAPAxis(self, item)
Register(axes, item) == (item :> (created + 1)) @@ axes

\* controller.py lines 72-76: the lookup of an address
GetItem(item) ==
    IF item \notin Registered
    THEN IF item \notin ALL_AXES_VALID
         THEN [out |-> "ValueError", handle |-> 0, axes |-> axes_]
         ELSE [out |-> "ok", handle |-> created + 1, axes |-> Register(axes_, item)]
    ELSE [out |-> "ok", handle |-> axes_[item], axes |-> axes_]

\* controller.py lines 68-69, 99-104: the lookup of a name
GetItemByName(name) ==
    IF name \notin DOMAIN aliases_
    THEN [out |-> "ValueError", handle |-> 0, axes |-> axes_]
    ELSE GetItem(aliases_[name])

\* the names that point at one of the addresses
PointingAt(addrs) == {n \in DOMAIN aliases_ : aliases_[n] \in addrs}

Without(f, keys) == [k \in (DOMAIN f) \ keys |-> f[k]]

\* controller.py lines 81-88 with the alias removal left out
DelItem_KeepAliases(axes, aliases, key) ==
    [axes |-> Without(axes, {key}), aliases |-> aliases]

\* controller.py lines 81-88: __delitem__ of a registered address
DelItem(axes, aliases, key) ==
    [axes |-> Without(axes, {key}),
     aliases |-> Without(aliases, {n \in DOMAIN aliases : aliases[n] = key})]

\* __delitem__ for each address of a list in turn
RECURSIVE DelItems(_, _, _)
DelItems(axes, aliases, keys) ==
    IF keys = {} THEN [axes |-> axes, aliases |-> aliases]
    ELSE LET key == CHOOSE k \in keys : \A j \in keys : k <= j
             d == DelItem(axes, aliases, key)
         IN  DelItems(d.axes, d.aliases, keys \ {key})

\* pap[address]
CtlLookup(item) ==
    /\ LET r == GetItem(item)
       IN  /\ r.axes # axes_ => created < MaxHandles
           /\ axes_' = r.axes
           /\ created' = IF r.axes # axes_ THEN created + 1 ELSE created
           /\ ctl' = Op("lookup", "", item, r.out, r.handle, {})
    /\ UNCHANGED <<aliases_, written>>
    /\ UNCHANGED notCtl

\* pap[name]
CtlLookupName(name) ==
    /\ LET r == GetItemByName(name)
       IN  /\ r.axes # axes_ => created < MaxHandles
           /\ axes_' = r.axes
           /\ created' = IF r.axes # axes_ THEN created + 1 ELSE created
           /\ ctl' = Op("lookup", name, 0, r.out, r.handle, {})
    /\ UNCHANGED <<aliases_, written>>
    /\ UNCHANGED notCtl

\* controller.py lines 308-317
CtlAddAlias(alias, axis) ==
    /\ axis \notin Registered => created < MaxHandles
    /\ axes_' = IF axis \notin Registered THEN Register(axes_, axis) ELSE axes_
    /\ created' = IF axis \notin Registered THEN created + 1 ELSE created
    /\ aliases_' = (alias :> axis) @@ aliases_
    /\ ctl' = Op("add_alias", alias, axis, "ok", 0, {})
    /\ UNCHANGED written
    /\ UNCHANGED notCtl

\* del pap[key]: self._axes.pop(key) raises for an address not registered
CtlDelItem(key) ==
    /\ IF key \notin Registered
       THEN /\ ctl' = Op("delete", "", key, "KeyError", 0, {})
            /\ UNCHANGED <<axes_, aliases_>>
       ELSE LET d == DelItem(axes_, aliases_, key)
            IN  /\ axes_' = d.axes
                /\ aliases_' = d.aliases
                /\ ctl' = Op("delete", "", key, "ok", 0, PointingAt({key}))
    /\ UNCHANGED <<created, written>>
    /\ UNCHANGED notCtl

\* controller.py lines 289-306: find_axes writes ?SYSSTAT queries, then the
\* registered axes the controller does not have are deleted
CtlUpdateAxes(alive_axes, failed) ==
    /\ written < MaxSent
    /\ written' = written + 1
    /\ IF failed
       THEN /\ ctl' = Op("update_axes", "", 0, "RuntimeError", 0, {})
            /\ UNCHANGED <<axes_, aliases_>>
       ELSE LET axes_to_remove == Registered \ alive_axes
                d == DelItems(axes_, aliases_, axes_to_remove)
            IN  /\ axes_' = d.axes
                /\ aliases_' = d.aliases
                /\ ctl' = Op("update_axes", "", 0, "ok", 0,
                             PointingAt(axes_to_remove))
    /\ UNCHANGED created
    /\ UNCHANGED notCtl

\* controller.py lines 106-129, 566-576: a command with an address argument,
\* get_pos(axis): the address is formatted with str() and the command written
CtlGetPos(axis) ==
    /\ written < MaxSent
    /\ written' = written + 1
    /\ ctl' = Op("command", "", axis, "ok", 0, {})
    /\ UNCHANGED <<axes_, aliases_, created>>
    /\ UNCHANGED notCtl

\* controller.py lines 54-65: no axes, or with auto_axes the axes found
CtlInit ==
    /\ \E alive \in AliveSets :
          /\ axes_ = [a \in alive |-> Cardinality({b \in alive : b <= a})]
          /\ created = Cardinality(alive)
    /\ aliases_ = <<>>
    /\ written = 0
    /\ ctl = NoOp

CtlIdle ==
    /\ axes_ = <<>>
    /\ aliases_ = <<>>
    /\ created = 0
    /\ written = 0
    /\ ctl = NoOp

CtlNext ==
    \/ \E item \in Addresses : CtlLookup(item)
    \/ \E name \in AliasNames : CtlLookupName(name)
    \/ \E alias \in AliasNames, axis \in Addresses : CtlAddAlias(alias, axis)
    \/ \E key \in Addresses : CtlDelItem(key)
    \/ \E axis \in Addresses : CtlGetPos(axis)
    \/ \E alive_axes \in AliveSets, failed \in BOOLEAN :
          CtlUpdateAxes(alive_axes, failed)

(***************************************************************************)
(* The dump of a position table: IcePAPAxis._get_dump_table and            *)
(* get_dump_values (icepap/axis.py lines 72-104), called by get_ecam_table *)
(* and get_list_table (lines 1835-1844, 1868-1876).                        *)
(***************************************************************************)
\* axis.py line 89
MAX_SUBSET_SIZE == 200

\* '?ECAMDAT {0} {1}' and '?LISTDAT {0} {1}'
DumpCmds == {"ECAMDAT", "LISTDAT"}

\* the value the device table holds at an index (indices start at 0)
ValueAt(id) == 2 * id + 1

\* the len field of a line, as far from the number of entries as the device
\* makes it
LenOffsets == {-1, 0, 1}

\* a line 'last_id/len : index : value' of a reply, or one without these fields
Line(id, len) == [fields |-> TRUE, id |-> id, len |-> len, value |-> ValueAt(id)]
NoFields == [fields |-> FALSE, id |-> 0, len |-> 0, value |-> 0]

\* the lines of the device for a page of count entries from an offset
DevicePage(n, len, count, offset) ==
    LET last == IF offset + count < n THEN offset + count ELSE n
    IN  [i \in 1..(last - offset) |-> Line(offset + i - 1, len)]

\* what send_cmd can hand back for a page: the lines of the page; past the
\* end of the table no line or a line without fields; None when the first
\* recv held no '$'; RuntimeError for an ERROR reply or a lost connection
PageReplies(n, len, count, offset) ==
    (IF offset < n
     THEN {[out |-> "list", val |-> DevicePage(n, len, count, offset), lost |-> FALSE]}
     ELSE {[out |-> "list", val |-> <<>>, lost |-> FALSE],
           [out |-> "list", val |-> <<NoFields>>, lost |-> FALSE]})
    \cup {[out |-> "None", val |-> <<>>, lost |-> TRUE],
          [out |-> "raise", val |-> <<>>, lost |-> TRUE]}

\* axis.py lines 72-86
get_dump_values(raw_table) ==
    IF \E i \in 1..Len(raw_table) : ~raw_table[i].fields
    THEN [exc |-> "RuntimeError", values |-> <<>>, last_id |-> 0, len_data |-> 0]
    ELSE IF raw_table = <<>>
    THEN [exc |-> "UnboundLocalError", values |-> <<>>, last_id |-> 0, len_data |-> 0]
    ELSE [exc |-> "none",
          values |-> [i \in 1..Len(raw_table) |-> raw_table[i].value],
          last_id |-> raw_table[Len(raw_table)].id,
          len_data |-> raw_table[Len(raw_table)].len]

\* axis.py lines 99-101 without the correction for LISTDAT
StopLen_NoCorrection(cmd, len_data) == len_data

\* axis.py lines 99-101: the last_id that ends the loop
StopLen(cmd, len_data) == IF cmd = "LISTDAT" THEN len_data - 1 ELSE len_data

Dumping(start_pos, table, pages) ==
    [pc |-> "loop", start_pos |-> start_pos, table |-> table, pages |-> pages,
     exc |-> "none", lost |-> FALSE]

DumpRaised(exc, lost) ==
    [dump EXCEPT !.pc = "raised", !.exc = exc, !.lost = lost]

\* axis.py lines 92-103: one turn of the loop
DumpPage ==
    /\ dump.pc = "loop"
    /\ \E r \in PageReplies(dev.n, dev.len, MAX_SUBSET_SIZE, dump.start_pos) :
          IF r.out = "raise" THEN dump' = DumpRaised("RuntimeError", r.lost)
          ELSE IF r.out = "None" THEN dump' = DumpRaised("TypeError", r.lost)
          ELSE LET d == get_dump_values(r.val)
                   page == [offset |-> dump.start_pos, count |-> MAX_SUBSET_SIZE,
                            size |-> Len(r.val), last_id |-> d.last_id]
               IN  IF d.exc # "none" THEN dump' = DumpRaised(d.exc, r.lost)
                   ELSE IF d.last_id = StopLen(dev.cmd, d.len_data)
                   THEN dump' = [dump EXCEPT !.pc = "returned",
                                             !.table = dump.table \o d.values,
                                             !.pages = Append(dump.pages, page)]
                   ELSE dump' = Dumping(d.last_id + 1, dump.table \o d.values,
                                        Append(dump.pages, page))
    /\ UNCHANGED dev
    /\ UNCHANGED notDump

DumpInit ==
    /\ \E cmd \in DumpCmds, n \in 0..MaxEntries, off \in LenOffsets :
          dev = [cmd |-> cmd, n |-> n, len |-> n + off]
    /\ dump = Dumping(0, <<>>, <<>>)

DumpIdle ==
    /\ dev = [cmd |-> "ECAMDAT", n |-> 0, len |-> 0]
    /\ dump = Dumping(0, <<>>, <<>>)

DumpNext == DumpPage

(***************************************************************************)
(* The upload of a table: IcePAPAxis.set_ecam_table (icepap/axis.py lines  *)
(* 1808-1827), get_ushort_list (lines 47-70) and SocketCom.send_binary     *)
(* (icepap/communication.py lines 182-203), over _send_data.               *)
(***************************************************************************)
UpThreads == {"u1", "u2"}

\* the positions of a table
TableEntries == {-1, 0, 3}

Tables == SeqsUpTo(TableEntries, MaxTable) \ {<<>>}

DTypes == {"DWORD", "FLOAT"}

\* axis.py line 1822
MaxWords == 40954

\* axis.py line 1820 left out: the list as it was given
Sorted_AsGiven(l) == l

\* list.sort(): ascending
RECURSIVE Sorted(_)
Sorted(l) ==
    IF l = <<>> THEN <<>>
    ELSE LET i == CHOOSE k \in 1..Len(l) : \A j \in 1..Len(l) : l[k] <= l[j]
         IN  <<l[i]>> \o Sorted(SubSeq(l, 1, i - 1) \o SubSeq(l, i + 1, Len(l)))

\* struct.pack of one value and struct.unpack of its bytes as 16-bit words,
\* low word first: 'i' is the two's complement of the integer, 'f' the
\* IEEE 754 single of the value
UShorts(v, dtype) ==
    IF dtype = "DWORD"
    THEN IF v < 0 THEN <<65536 + v, 65535>> ELSE <<v, 0>>
    ELSE IF v = -1 THEN <<0, 49024>>
    ELSE IF v = 3 THEN <<0, 16448>>
    ELSE <<0, 0>>

\* axis.py lines 47-70
get_ushort_list(ldata, dtype) ==
    [i \in 1..(2 * Len(ldata)) |-> UShorts(ldata[(i + 1) \div 2], dtype)[2 - (i % 2)]]

\* a 32-bit value as its two 16-bit halves
U32(hi, lo) == [hi |-> hi, lo |-> lo]

\* communication.py line 191: 0xa5aa555a
startmark == U32(42410, 21850)

\* communication.py lines 193-194 without the mask: the sum as it is
RECURSIVE Checksum_Unmasked(_)
Checksum_Unmasked(ushort_data) ==
    IF ushort_data = <<>> THEN U32(0, 0)
    ELSE LET s == Checksum_Unmasked(Tail(ushort_data))
             lo == s.lo + Head(ushort_data)
         IN  U32(s.hi, lo)

\* communication.py lines 193-194: sum(ushort_data) & 0xffffffff
RECURSIVE Checksum(_)
Checksum(ushort_data) ==
    IF ushort_data = <<>> THEN U32(0, 0)
    ELSE LET s == Checksum(Tail(ushort_data))
             lo == s.lo + Head(ushort_data)
         IN  U32((s.hi + lo \div 65536) % 65536, lo % 65536)

\* struct.pack('L', x)[:4]: the four low bytes, lowest first
Pack4(x) == <<x.lo % 256, x.lo \div 256, x.hi % 256, x.hi \div 256>>

\* array.array('H', ushort_data).tostring(): two bytes a word, low first
DataBytes(ushort_data) ==
    [i \in 1..(2 * Len(ushort_data)) |->
        IF i % 2 = 1 THEN ushort_data[(i + 1) \div 2] % 256
        ELSE ushort_data[i \div 2] \div 256]

\* communication.py lines 190-202: the bytes send_binary hands to _send_data
BinaryFrame(ushort_data) ==
    Pack4(startmark)
    \o Pack4(U32(Len(ushort_data) \div 65536, Len(ushort_data) % 65536))
    \o Pack4(Checksum(ushort_data))
    \o DataBytes(ushort_data)
    \o <<13>>

\* what is given to the socket: the text of a command or a binary frame
TextItem(t, data) == [t |-> t, kind |-> "text", text |-> data, bin |-> <<>>]
BinItem(t, data) == [t |-> t, kind |-> "bin", text |-> <<>>, bin |-> data]

\* axis.py lines 1445-1453, 1825: the header command with the axis number
EcamHeader(dtype) == <<"1", ":", "*ECAMDAT", " ", "AXIS", " ", dtype>>

\* another command of the axis
EcamPulse == <<"1", ":", "ECAM", " ", "PULSE">>

NoUpload == [pc |-> "idle", op |-> "none", stage |-> "none", lpos |-> <<>>,
             dtype |-> "", ushorts |-> <<>>, wrote |-> <<>>, reads |-> 0,
             exc |-> "none", cause |-> "none"]

\* the call ends with an exception; cause is the exception it was made from
UpRaised(t, exc, cause) ==
    [upTh EXCEPT ![t].pc = "raised", ![t].exc = exc, ![t].cause = cause]

\* axis.py lines 1820-1826: sort the list, convert it, refuse a list that
\* is too long, else send the header command
UpSetEcamTable(t, lpos, dtype) ==
    /\ upTh[t].pc = "idle"
    /\ LET sorted == Sorted(lpos)
           lushorts == get_ushort_list(sorted, dtype)
           c == [NoUpload EXCEPT !.op = "upload", !.lpos = sorted,
                                 !.dtype = dtype, !.ushorts = lushorts]
       IN  IF Len(lushorts) > MaxWords
           THEN upTh' = [upTh EXCEPT ![t] = [c EXCEPT !.pc = "raised",
                                                      !.exc = "ValueError",
                                                      !.cause = "ValueError"]]
           ELSE upTh' = [upTh EXCEPT ![t] = [c EXCEPT !.pc = "lock",
                                                      !.stage = "header"]]
    /\ UNCHANGED <<upWire, upLock, tostring>>
    /\ UNCHANGED notUpload

\* a thread sends a command that is acknowledged
UpSendCmd(t) ==
    /\ upTh[t].pc = "idle"
    /\ upTh' = [upTh EXCEPT ![t] = [NoUpload EXCEPT !.op = "cmd", !.pc = "lock",
                                                    !.stage = "cmd"]]
    /\ UNCHANGED <<upWire, upLock, tostring>>
    /\ UNCHANGED notUpload

\* communication.py line 257: with self._lock
UpAcquire(t) ==
    /\ upTh[t].pc = "lock"
    /\ upLock = "free"
    /\ upLock' = t
    /\ upTh' = [upTh EXCEPT ![t].pc = "send"]
    /\ UNCHANGED <<upWire, tostring>>
    /\ UNCHANGED notUpload

\* the bytes of the stage a thread is in
UpItem(t) ==
    IF upTh[t].stage = "header"
    THEN TextItem(t, Frame(EcamHeader(upTh[t].dtype)).data)
    ELSE IF upTh[t].stage = "block"
    THEN BinItem(t, BinaryFrame(upTh[t].ushorts))
    ELSE TextItem(t, Frame(EcamPulse).data)

\* whether _send_data reads an answer for the stage
UpWaits(t) ==
    IF upTh[t].stage = "block" THEN FALSE
    ELSE IF upTh[t].stage = "header"
    THEN WaitAnswer(Frame(EcamHeader(upTh[t].dtype)).data)
    ELSE WaitAnswer(Frame(EcamPulse).data)

\* communication.py lines 258-273, 310-313, and for the header
\* communication.py lines 190-203: sendall; without an answer to wait for
\* the lock is left; after the header send_binary builds its frame
UpSendall(t, ok) ==
    /\ upTh[t].pc = "send"
    /\ IF ~ok
       THEN /\ upTh' = UpRaised(t, "RuntimeError", "OSError")
            /\ upLock' = "free"
            /\ UNCHANGED upWire
       ELSE /\ upWire' = Append(upWire, UpItem(t))
            /\ LET w == [upTh EXCEPT ![t].wrote = Append(@, UpItem(t))]
               IN  IF UpWaits(t)
                   THEN /\ upTh' = [w EXCEPT ![t].pc = "recv"]
                        /\ UNCHANGED upLock
                   ELSE /\ upLock' = "free"
                        /\ upTh' =
                              IF upTh[t].stage = "header"
                              THEN IF tostring
                                   THEN [w EXCEPT ![t].pc = "lock",
                                                  ![t].stage = "block"]
                                   ELSE [w EXCEPT ![t].pc = "raised",
                                                  ![t].exc = "RuntimeError",
                                                  ![t].cause = "AttributeError"]
                              ELSE [w EXCEPT ![t].pc = "returned"]
    /\ UNCHANGED tostring
    /\ UNCHANGED notUpload

\* communication.py lines 274-313: the answer is read and the lock left
UpRecv(t, ok) ==
    /\ upTh[t].pc = "recv"
    /\ upLock' = "free"
    /\ upTh' = IF ok THEN [upTh EXCEPT ![t].pc = "returned", ![t].reads = @ + 1]
                     ELSE [upTh EXCEPT ![t].pc = "raised", ![t].reads = @ + 1,
                                       ![t].exc = "RuntimeError",
                                       ![t].cause = "OSError"]
    /\ UNCHANGED <<upWire, tostring>>
    /\ UNCHANGED notUpload

UploadInit ==
    /\ upTh = [t \in UpThreads |-> NoUpload]
    /\ upWire = <<>>
    /\ upLock = "free"
    /\ tostring \in BOOLEAN

UploadIdle ==
    /\ upTh = [t \in UpThreads |-> NoUpload]
    /\ upWire = <<>>
    /\ upLock = "free"
    /\ tostring = TRUE

UploadNext ==
    \/ \E t \in UpThreads, lpos \in Tables, dtype \in DTypes :
          UpSetEcamTable(t, lpos, dtype)
    \/ \E t \in UpThreads : UpSendCmd(t)
    \/ \E t \in UpThreads : UpAcquire(t)
    \/ \E t \in UpThreads, ok \in BOOLEAN : UpSendall(t, ok)
    \/ \E t \in UpThreads, ok \in BOOLEAN : UpRecv(t, ok)

(***************************************************************************)
(* IcePAPController.find_axes (icepap/controller.py lines 254-278).        *)
(***************************************************************************)
\* the racks that answer with masks of their own
SomeRacks == {0, 15}

\* answers to ?SYSSTAT: racks 0 and 15, and a bit above the sixteen racks
RackMasks == {0, 1, 32768, 32769, 98305}

\* present or alive drivers of a rack, the last with a bit above the eight
\* drivers
DriverMasks == {0, 1, 3, 17, 128, 511}

\* (x & 1 << i) > 0
BitSet(x, i) == (x \div (2 ^ i)) % 2 = 1

\* controller.py lines 267-272 with the present mask in either case
DriversMask_Present(drivers_mask, only_alive) == drivers_mask[1]

\* controller.py lines 267-272: the mask find_axes reads from the answer
DriversMask(drivers_mask, only_alive) ==
    IF only_alive THEN drivers_mask[2] ELSE drivers_mask[1]

\* controller.py lines 273-277: the axes of rack i, in the order of j
RackAxes(i, drvs) ==
    LET A[j \in -1..7] ==
            IF j = -1 THEN <<>>
            ELSE IF BitSet(drvs, j) THEN Append(A[j - 1], i * 10 + j + 1)
            ELSE A[j - 1]
    IN  A[7]

\* controller.py lines 259-278: the axes, and the racks that were asked
find_axes(racks_present, masks, only_alive) ==
    LET R[i \in -1..15] ==
            IF i = -1 THEN [axes |-> <<>>, asked |-> <<>>]
            ELSE IF BitSet(racks_present, i)
            THEN [axes |-> R[i - 1].axes
                           \o RackAxes(i, DriversMask(masks[i], only_alive)),
                  asked |-> Append(R[i - 1].asked, i)]
            ELSE R[i - 1]
    IN  R[15]

NotFound == [set |-> FALSE, only_alive |-> FALSE, axes |-> <<>>, asked |-> <<>>]

FindAxes(only_alive) ==
    /\ ~found.set
    /\ LET r == find_axes(sysstat.racks, sysstat.masks, only_alive)
       IN  found' = [set |-> TRUE, only_alive |-> only_alive,
                     axes |-> r.axes, asked |-> r.asked]
    /\ UNCHANGED sysstat
    /\ UNCHANGED notFind

FindInit ==
    /\ \E racks \in RackMasks, m \in [SomeRacks -> DriverMasks \X DriverMasks] :
          sysstat = [racks |-> racks,
                     masks |-> [i \in 0..15 |-> IF i \in SomeRacks THEN m[i]
                                                ELSE <<0, 0>>]]
    /\ found = NotFound

FindIdle ==
    /\ sysstat = [racks |-> 0, masks |-> [i \in 0..15 |-> <<0, 0>>]]
    /\ found = NotFound

FindNext == \E only_alive \in BOOLEAN : FindAxes(only_alive)

(***************************************************************************)
(* The status register: class State (icepap/utils.py lines 125-523).       *)
(***************************************************************************)
\* the word with only bit b set, and the word with every bit but b set
OneBit(b) == IF b < 16 THEN U32(0, 2 ^ b) ELSE U32(2 ^ (b - 16), 0)
AllBut(b) == IF b < 16 THEN U32(65535, 65535 - 2 ^ b)
                       ELSE U32(65535 - 2 ^ (b - 16), 65535)

\* the status words that are decoded: each bit alone, each bit missing,
\* none, all, and the register of the tests, 0x00205013
StatusWords ==
    {OneBit(b) : b \in 0..31} \cup {AllBut(b) : b \in 0..31}
    \cup {U32(0, 0), U32(65535, 65535), U32(32, 20499)}

\* (self._status_reg >> k) & mask, for a mask of at most 16 bits
ShiftMask(w, k, mask) ==
    LET low == IF k < 16 THEN (w.lo \div (2 ^ k)) + (w.hi % (2 ^ k)) * (2 ^ (16 - k))
                         ELSE w.hi \div (2 ^ (k - 16))
    IN  low % (mask + 1)

\* utils.py lines 435-443 with a mask of three bits
get_stop_code_3bits(w) == ShiftMask(w, 14, 7)

\* utils.py lines 298-523: the accessors
is_present(w) == ShiftMask(w, 0, 1) # 0
is_alive(w) == ShiftMask(w, 1, 1) # 0
get_mode_code(w) == ShiftMask(w, 2, 3)
get_disable_code(w) == ShiftMask(w, 4, 7)
is_disabled(w) == ShiftMask(w, 4, 7) > 0
get_indexer_code(w) == ShiftMask(w, 7, 3)
is_ready(w) == ShiftMask(w, 9, 1) # 0
State_is_moving(w) == ShiftMask(w, 10, 1) # 0
is_settling(w) == ShiftMask(w, 11, 1) # 0
is_outofwin(w) == ShiftMask(w, 12, 1) # 0
is_warning(w) == ShiftMask(w, 13, 1) # 0
get_stop_code(w) == ShiftMask(w, 14, 15)
is_limit_positive(w) == ShiftMask(w, 18, 1) # 0
is_limit_negative(w) == ShiftMask(w, 19, 1) # 0
is_inhome(w) == ShiftMask(w, 20, 1) # 0
is_5vpower(w) == ShiftMask(w, 21, 1) # 0
is_verserr(w) == ShiftMask(w, 22, 1) # 0
is_poweron(w) == ShiftMask(w, 23, 1) # 0
get_info_code(w) == ShiftMask(w, 24, 255)

NotDecoded == [set |-> FALSE]

\* every accessor of State(status_reg) is called
Decode ==
    /\ ~decoded.set
    /\ decoded' = [set |-> TRUE,
                   present |-> is_present(status_reg),
                   alive |-> is_alive(status_reg),
                   mode |-> get_mode_code(status_reg),
                   disable |-> get_disable_code(status_reg),
                   disabled |-> is_disabled(status_reg),
                   indexer |-> get_indexer_code(status_reg),
                   ready |-> is_ready(status_reg),
                   moving |-> State_is_moving(status_reg),
                   settling |-> is_settling(status_reg),
                   outofwin |-> is_outofwin(status_reg),
                   warning |-> is_warning(status_reg),
                   stopcode |-> get_stop_code(status_reg),
                   limit_positive |-> is_limit_positive(status_reg),
                   limit_negative |-> is_limit_negative(status_reg),
                   inhome |-> is_inhome(status_reg),
                   power5v |-> is_5vpower(status_reg),
                   verserr |-> is_verserr(status_reg),
                   poweron |-> is_poweron(status_reg),
                   info |-> get_info_code(status_reg)]
    /\ UNCHANGED status_reg
    /\ UNCHANGED notState

StateInit ==
    /\ status_reg \in StatusWords
    /\ decoded = NotDecoded

StateIdle ==
    /\ status_reg = U32(0, 0)
    /\ decoded = NotDecoded

StateNext == Decode

(***************************************************************************)
(* SocketCom: the life of the connection (icepap/communication.py lines    *)
(* 162-313).  A command is kept as its kind: it waits for no answer, for   *)
(* a one-line answer or for an answer between two "$".  SocketCom._socket  *)
(* refers to one socket object at a time.                                  *)
(***************************************************************************)
CmdKinds == {"noanswer", "single", "multi"}

\* a thread that holds the lock is inside sendall or recv
Using(t) == cnLock = t /\ cnPc[t] \in {"send", "recv", "more"}

\* res: how the last finished command ended; ret: what connected was as
\* disconnect returned; hurt: who closed or replaced the socket under a
\* thread that was using it; late: a connect thread was started after
\* disconnect had been called
NoObs == [res |-> "none", ret |-> "none", hurt |-> "none", late |-> FALSE]

\* a thread is inside disconnect
Disconnecting == \E u \in Threads : cnPc[u] \in {"d2", "d3", "d4"}

\* a command has failed and started a connect thread; late: it did so
\* while disconnect was running
Failed == [cnObs EXCEPT !.res = "error", !.late = @ \/ Disconnecting]

Hurt(by, self) ==
    IF \E t \in Threads \ {self} : Using(t) THEN by ELSE cnObs.hurt

CnFree == {k \in ConnThreads : cnCt[k] = "off"}
CnNew == CHOOSE k \in CnFree : TRUE

\* _start_thread, lines 205-210
CnStartThread ==
    /\ CnFree # {}
    /\ cnCt' = [cnCt EXCEPT ![CnNew] = "c1"]
    /\ cnLatest' = CnNew

\* _send_data lines 310-313: the exception leaves the lock, starts a
\* connect thread and becomes a RuntimeError
CnRaise(t) ==
    /\ CnStartThread
    /\ cnLock' = IF cnLock = t THEN "free" ELSE cnLock
    /\ cnPc' = [cnPc EXCEPT ![t] = "idle"]
    /\ cnKind' = [cnKind EXCEPT ![t] = "noanswer"]
    /\ cnObs' = Failed

\* _send_data line 309: the answer is returned
CnReturn(t, res) ==
    /\ cnLock' = "free"
    /\ cnPc' = [cnPc EXCEPT ![t] = "idle"]
    /\ cnKind' = [cnKind EXCEPT ![t] = "noanswer"]
    /\ cnObs' = [cnObs EXCEPT !.res = res]
    /\ UNCHANGED <<cnCt, cnLatest>>

\* _send_data lines 251-254: the test of connected
CnSendCmd(t, kind) ==
    /\ cnPc[t] = "idle"
    /\ IF cnConnected
       THEN /\ cnPc' = [cnPc EXCEPT ![t] = "lock"]
            /\ cnKind' = [cnKind EXCEPT ![t] = kind]
            /\ UNCHANGED <<cnCt, cnLatest, cnObs>>
       ELSE /\ CnStartThread
            /\ cnObs' = Failed
            /\ UNCHANGED <<cnPc, cnKind>>
    /\ UNCHANGED <<cnSocket, cnPeer, cnReach, cnConnected, cnStop, cnLock>>
    /\ UNCHANGED notConn

\* _send_data line 257
CnAcquire(t) ==
    /\ cnPc[t] = "lock"
    /\ LockFree(cnLock)
    /\ cnLock' = t
    /\ cnPc' = [cnPc EXCEPT ![t] = "send"]
    /\ UNCHANGED <<cnSocket, cnPeer, cnReach, cnConnected, cnStop, cnLatest,
                   cnKind, cnCt, cnObs>>
    /\ UNCHANGED notConn

\* _send_data lines 258-272: sendall.  A connected socket takes the bytes,
\* also when the controller cannot be reached or has closed its end; the
\* bytes sent to a closed end are answered with a reset
CnSendall(t) ==
    /\ cnPc[t] = "send"
    /\ IF cnSocket = "conn" /\ cnPeer \in {"up", "fin"}
       THEN /\ cnPeer' = IF cnPeer = "fin" THEN "rst" ELSE cnPeer
            /\ IF cnKind[t] = "noanswer"
               THEN CnReturn(t, "ok")
               ELSE /\ cnPc' = [cnPc EXCEPT ![t] = "recv"]
                    /\ UNCHANGED <<cnLock, cnKind, cnCt, cnLatest, cnObs>>
       ELSE /\ CnRaise(t)
            /\ UNCHANGED cnPeer
    /\ UNCHANGED <<cnSocket, cnReach, cnConnected, cnStop>>
    /\ UNCHANGED notConn

\* what one recv brings: "raise" (socket.timeout or another OSError),
\* "eof" (the empty bytes of a connection the controller closed), "all"
\* (the rest of the answer) or "part" (bytes with one "$")
RecvKinds(t) ==
    IF cnSocket # "conn" \/ cnPeer \notin {"up", "fin"} THEN {"raise"}
    ELSE IF cnPeer = "fin" THEN {"eof"}
    ELSE IF ~cnReach THEN {"raise"}
    ELSE IF cnKind[t] = "multi" /\ cnPc[t] = "recv" THEN {"all", "part"}
    ELSE {"all"}

\* _send_data lines 273-275 and 309: the first recv
CnRecv(t) ==
    /\ cnPc[t] = "recv"
    /\ \E r \in RecvKinds(t) :
          CASE r = "raise" -> CnRaise(t)
            [] r = "eof" -> CnReturn(t, "empty")
            [] r = "all" -> CnReturn(t, "ok")
            [] r = "part" -> /\ cnPc' = [cnPc EXCEPT ![t] = "more"]
                             /\ UNCHANGED <<cnLock, cnKind, cnCt, cnLatest,
                                            cnObs>>
    /\ UNCHANGED <<cnSocket, cnPeer, cnReach, cnConnected, cnStop>>
    /\ UNCHANGED notConn

\* _send_data lines 307-308: while answer.count(b'$') < 2: one more recv;
\* the empty bytes add no "$" and the loop goes on
CnRecvMore(t) ==
    /\ cnPc[t] = "more"
    /\ \E r \in RecvKinds(t) :
          CASE r = "raise" -> CnRaise(t)
            [] r = "eof" -> UNCHANGED <<cnLock, cnPc, cnKind, cnCt, cnLatest,
                                        cnObs>>
            [] r = "all" -> CnReturn(t, "ok")
    /\ UNCHANGED <<cnSocket, cnPeer, cnReach, cnConnected, cnStop>>
    /\ UNCHANGED notConn

\* _try_to_connect lines 213-214
CnReset(k) ==
    /\ cnCt[k] = "c1"
    /\ cnConnected' = FALSE
    /\ cnCt' = [cnCt EXCEPT ![k] = "c2"]
    /\ UNCHANGED <<cnSocket, cnPeer, cnReach, cnStop, cnLock, cnLatest, cnPc,
                   cnKind, cnObs>>
    /\ UNCHANGED notConn

\* _try_to_connect lines 216-220: the socket is closed, the lock not taken
CnClose(k) ==
    /\ cnCt[k] = "c2"
    /\ cnSocket' = "closed"
    /\ cnPeer' = "none"
    /\ cnObs' = [cnObs EXCEPT !.hurt = Hurt("connect", "none")]
    /\ cnCt' = [cnCt EXCEPT ![k] = "c3"]
    /\ UNCHANGED <<cnReach, cnConnected, cnStop, cnLock, cnLatest, cnPc,
                   cnKind>>
    /\ UNCHANGED notConn

\* _try_to_connect line 221: while not self._stop_thread
CnLoop(k) ==
    /\ cnCt[k] = "c3"
    /\ cnCt' = [cnCt EXCEPT ![k] = IF cnStop THEN "off" ELSE "c3n"]
    /\ UNCHANGED <<cnSocket, cnPeer, cnReach, cnConnected, cnStop, cnLock,
                   cnLatest, cnPc, cnKind, cnObs>>
    /\ UNCHANGED notConn

\* _try_to_connect lines 222-227: a new socket takes the place of the old
CnSocket(k) ==
    /\ cnCt[k] = "c3n"
    /\ cnSocket' = "fresh"
    /\ cnPeer' = "none"
    /\ cnObs' = [cnObs EXCEPT !.hurt = Hurt("connect", "none")]
    /\ cnCt' = [cnCt EXCEPT ![k] = "c4"]
    /\ UNCHANGED <<cnReach, cnConnected, cnStop, cnLock, cnLatest, cnPc,
                   cnKind>>
    /\ UNCHANGED notConn

\* what connect() does to the socket self._socket refers to now: a socket
\* that is closed or connected already raises OSError, a controller that
\* is out of reach lets it time out or refuses
ConnectOutcomes ==
    IF cnSocket # "fresh" THEN {"OSError"}
    ELSE IF cnReach THEN {"ok"}
    ELSE {"timeout", "OSError"}

\* _try_to_connect lines 228-243; the threads of _send_data run with
\* wait=True: after a timeout they sleep and go round the loop
CnConnect(k) ==
    /\ cnCt[k] = "c4"
    /\ \E oc \in ConnectOutcomes :
          CASE oc = "ok" -> /\ cnSocket' = "conn"
                            /\ cnPeer' = "up"
                            /\ cnConnected' = TRUE
                            /\ cnCt' = [cnCt EXCEPT ![k] = "off"]
            [] oc = "timeout" -> /\ cnCt' = [cnCt EXCEPT ![k] = "c3"]
                                 /\ UNCHANGED <<cnSocket, cnPeer, cnConnected>>
            [] oc = "OSError" -> /\ cnCt' = [cnCt EXCEPT ![k] = "off"]
                                 /\ UNCHANGED <<cnSocket, cnPeer, cnConnected>>
    /\ UNCHANGED <<cnReach, cnStop, cnLock, cnLatest, cnPc, cnKind, cnObs>>
    /\ UNCHANGED notConn

\* disconnect line 166: self._socket.close()
CnDisconnect(t) ==
    /\ cnPc[t] = "idle"
    /\ \A u \in Threads : cnPc[u] \notin {"d2", "d3", "d4", "gone"}
    /\ cnSocket' = "closed"
    /\ cnPeer' = "none"
    /\ cnObs' = [cnObs EXCEPT !.hurt = Hurt("disconnect", t)]
    /\ cnPc' = [cnPc EXCEPT ![t] = "d2"]
    /\ UNCHANGED <<cnReach, cnConnected, cnStop, cnLock, cnLatest, cnKind,
                   cnCt>>
    /\ UNCHANGED notConn

\* disconnect line 167: self.connected = False
CnDiscFlag(t) ==
    /\ cnPc[t] = "d2"
    /\ cnConnected' = FALSE
    /\ cnPc' = [cnPc EXCEPT ![t] = "d3"]
    /\ UNCHANGED <<cnSocket, cnPeer, cnReach, cnStop, cnLock, cnLatest,
                   cnKind, cnCt, cnObs>>
    /\ UNCHANGED notConn

\* disconnect line 168: self._stop_thread = True
CnDiscStop(t) ==
    /\ cnPc[t] = "d3"
    /\ cnStop' = TRUE
    /\ cnPc' = [cnPc EXCEPT ![t] = "d4"]
    /\ UNCHANGED <<cnSocket, cnPeer, cnReach, cnConnected, cnLock, cnLatest,
                   cnKind, cnCt, cnObs>>
    /\ UNCHANGED notConn

\* disconnect line 169: self._connect_thread.join(), and the return
CnDiscJoin(t) ==
    /\ cnPc[t] = "d4"
    /\ cnCt[cnLatest] = "off"
    /\ cnPc' = [cnPc EXCEPT ![t] = "gone"]
    /\ cnObs' = [cnObs EXCEPT !.ret = IF cnConnected THEN "connected"
                                                     ELSE "notconnected"]
    /\ UNCHANGED <<cnSocket, cnPeer, cnReach, cnConnected, cnStop, cnLock,
                   cnLatest, cnKind, cnCt>>
    /\ UNCHANGED notConn

\* the controller goes out of reach; when it reboots it closes its end of
\* the connection
ReachLost(reboot) ==
    /\ cnReach
    /\ cnReach' = FALSE
    /\ cnPeer' = IF reboot /\ cnPeer = "up" THEN "fin" ELSE cnPeer
    /\ UNCHANGED <<cnSocket, cnConnected, cnStop, cnLock, cnLatest, cnPc,
                   cnKind, cnCt, cnObs>>
    /\ UNCHANGED notConn

\* the controller is in reach again
ReachBack ==
    /\ ~cnReach
    /\ cnReach' = TRUE
    /\ UNCHANGED <<cnSocket, cnPeer, cnConnected, cnStop, cnLock, cnLatest,
                   cnPc, cnKind, cnCt, cnObs>>
    /\ UNCHANGED notConn

\* SocketCom.__init__ lines 140-160 has returned: the first connection is
\* up and its connect thread has ended
ConnInit ==
    /\ cnSocket = "conn"
    /\ cnPeer = "up"
    /\ cnReach = TRUE
    /\ cnConnected = TRUE
    /\ cnStop = FALSE
    /\ cnLock = "free"
    /\ cnLatest = "k1"
    /\ cnPc = [t \in Threads |-> "idle"]
    /\ cnKind = [t \in Threads |-> "noanswer"]
    /\ cnCt = [k \in ConnThreads |-> "off"]
    /\ cnObs = NoObs

ConnIdle == ConnInit

\* a caller's steps inside _send_data, and a connect thread's steps
CallerStep(t) == CnAcquire(t) \/ CnSendall(t) \/ CnRecv(t) \/ CnRecvMore(t)
ConnectStep(k) ==
    CnReset(k) \/ CnClose(k) \/ CnLoop(k) \/ CnSocket(k) \/ CnConnect(k)

\* the session in use: commands, connect threads, the controller
ConnUse ==
    \/ \E t \in Threads, kind \in CmdKinds : CnSendCmd(t, kind)
    \/ \E t \in Threads : CallerStep(t)
    \/ \E k \in ConnThreads : ConnectStep(k)
    \/ \E reboot \in BOOLEAN : ReachLost(reboot)
    \/ ReachBack

ConnNext ==
    \/ ConnUse
    \/ \E t \in Threads : CnDisconnect(t)
    \/ \E t \in Threads : CnDiscFlag(t)
    \/ \E t \in Threads : CnDiscStop(t)
    \/ \E t \in Threads : CnDiscJoin(t)

\* every thread goes on, and every caller goes on sending commands
ConnFairness ==
    /\ \A t \in Threads : WF_vars(\E kind \in CmdKinds : CnSendCmd(t, kind))
    /\ \A t \in Threads : WF_vars(CallerStep(t))
    /\ \A k \in ConnThreads : WF_vars(ConnectStep(k))

(***************************************************************************)
(* The specifications.                                                     *)
(***************************************************************************)
InitTcp ==
    /\ TcpInit
    /\ PowIdle
    /\ ComInit
    /\ ClsIdle
    /\ MoveIdle
    /\ ItemIdle
    /\ QueryIdle
    /\ CtlIdle
    /\ DumpIdle
    /\ UploadIdle
    /\ FindIdle
    /\ StateIdle
    /\ ConnIdle

SpecTcp == InitTcp /\ [][TcpNext]_vars

InitPower ==
    /\ PowInit
    /\ TcpInit
    /\ ComInit
    /\ ClsIdle
    /\ MoveIdle
    /\ ItemIdle
    /\ QueryIdle
    /\ CtlIdle
    /\ DumpIdle
    /\ UploadIdle
    /\ FindIdle
    /\ StateIdle
    /\ ConnIdle

SpecPower == InitPower /\ [][PowNext]_vars

InitCom ==
    /\ ComInit
    /\ TcpInit
    /\ PowIdle
    /\ ClsIdle
    /\ MoveIdle
    /\ ItemIdle
    /\ QueryIdle
    /\ CtlIdle
    /\ DumpIdle
    /\ UploadIdle
    /\ FindIdle
    /\ StateIdle
    /\ ConnIdle

SpecCom == InitCom /\ [][ComNext]_vars

InitClass ==
    /\ ClsInit
    /\ TcpInit
    /\ PowIdle
    /\ ComInit
    /\ MoveIdle
    /\ ItemIdle
    /\ QueryIdle
    /\ CtlIdle
    /\ DumpIdle
    /\ UploadIdle
    /\ FindIdle
    /\ StateIdle
    /\ ConnIdle

SpecClass == InitClass /\ [][ClsNext]_vars

InitMove ==
    /\ MoveInit
    /\ TcpInit
    /\ PowIdle
    /\ ComInit
    /\ ClsIdle
    /\ ItemIdle
    /\ QueryIdle
    /\ CtlIdle
    /\ DumpIdle
    /\ UploadIdle
    /\ FindIdle
    /\ StateIdle
    /\ ConnIdle

SpecMove == InitMove /\ [][MoveNext]_vars

SpecMoveFair == SpecMove /\ MoveFairness

InitItem ==
    /\ ItemInit
    /\ TcpInit
    /\ PowIdle
    /\ ComInit
    /\ ClsIdle
    /\ MoveIdle
    /\ QueryIdle
    /\ CtlIdle
    /\ DumpIdle
    /\ UploadIdle
    /\ FindIdle
    /\ StateIdle
    /\ ConnIdle

SpecItem == InitItem /\ [][ItemNext]_vars

InitQuery ==
    /\ QueryInit
    /\ TcpInit
    /\ PowIdle
    /\ ComInit
    /\ ClsIdle
    /\ MoveIdle
    /\ ItemIdle
    /\ CtlIdle
    /\ DumpIdle
    /\ UploadIdle
    /\ FindIdle
    /\ StateIdle
    /\ ConnIdle

SpecQuery == InitQuery /\ [][QueryNext]_vars

InitCtl ==
    /\ CtlInit
    /\ TcpInit
    /\ PowIdle
    /\ ComInit
    /\ ClsIdle
    /\ MoveIdle
    /\ ItemIdle
    /\ QueryIdle
    /\ DumpIdle
    /\ UploadIdle
    /\ FindIdle
    /\ StateIdle
    /\ ConnIdle

SpecCtl == InitCtl /\ [][CtlNext]_vars

InitDump ==
    /\ DumpInit
    /\ TcpInit
    /\ PowIdle
    /\ ComInit
    /\ ClsIdle
    /\ MoveIdle
    /\ ItemIdle
    /\ QueryIdle
    /\ CtlIdle
    /\ UploadIdle
    /\ FindIdle
    /\ StateIdle
    /\ ConnIdle

SpecDump == InitDump /\ [][DumpNext]_vars

InitUpload ==
    /\ UploadInit
    /\ TcpInit
    /\ PowIdle
    /\ ComInit
    /\ ClsIdle
    /\ MoveIdle
    /\ ItemIdle
    /\ QueryIdle
    /\ CtlIdle
    /\ DumpIdle
    /\ FindIdle
    /\ StateIdle
    /\ ConnIdle

SpecUpload == InitUpload /\ [][UploadNext]_vars

InitFind ==
    /\ FindInit
    /\ TcpInit
    /\ PowIdle
    /\ ComInit
    /\ ClsIdle
    /\ MoveIdle
    /\ ItemIdle
    /\ QueryIdle
    /\ CtlIdle
    /\ DumpIdle
    /\ UploadIdle
    /\ StateIdle
    /\ ConnIdle

SpecFind == InitFind /\ [][FindNext]_vars

InitState ==
    /\ StateInit
    /\ TcpInit
    /\ PowIdle
    /\ ComInit
    /\ ClsIdle
    /\ MoveIdle
    /\ ItemIdle
    /\ QueryIdle
    /\ CtlIdle
    /\ DumpIdle
    /\ UploadIdle
    /\ FindIdle
    /\ ConnIdle

SpecState == InitState /\ [][StateNext]_vars

InitConn ==
    /\ ConnInit
    /\ TcpInit
    /\ PowIdle
    /\ ComInit
    /\ ClsIdle
    /\ MoveIdle
    /\ ItemIdle
    /\ QueryIdle
    /\ CtlIdle
    /\ DumpIdle
    /\ UploadIdle
    /\ FindIdle
    /\ StateIdle

SpecConn == InitConn /\ [][ConnNext]_vars

SpecConnFair ==
    InitConn /\ [][ConnUse]_vars /\ ConnFairness

(***************************************************************************)
(* Claims about the transport and the session (icepap/tcp.py).             *)
(***************************************************************************)
\* a call of a wrapped operation that has returned or raised
CallDone == call.op \in RawOps /\ call.result \notin {"none", "running"}

IOErrors == {"Timeout", "BrokenPipeError", "ConnectionError",
             "ConnectionResetError", "ConnectionRefusedError"}

FirstTry(tr) == CHOOSE i \in DOMAIN tr :
                    tr[i].ev = "try" /\ \A j \in 1..(i - 1) : tr[j].ev # "try"

\* the first try of the call failed with an OSError that is no Timeout
FirstTryBroke ==
    /\ CallDone
    /\ \E i \in DOMAIN call.trace : call.trace[i].ev = "try"
    /\ call.trace[FirstTry(call.trace)].exc \notin {"none", "Timeout"}

After(tr, i, ev) == Cardinality({j \in DOMAIN tr : j > i /\ tr[j].ev = ev})

\* C2 as stated: whenever an operation of the session fails with an I/O
\* error that is no timeout, the session closes the connection, makes exactly
\* one reconnect attempt, retries the operation once (when the reconnect
\* succeeded), and only then lets an error reach the caller.
C2_AlwaysOneReconnect ==
    FirstTryBroke =>
        LET tr == call.trace
            i == FirstTry(tr)
        IN /\ After(tr, i, "close") = 1
           /\ After(tr, i, "conn") = 1
           /\ \A j \in DOMAIN tr :
                (j > i /\ tr[j].ev = "conn" /\ tr[j].exc = "none")
                    => After(tr, i, "try") = 1

\* C2, amended: after such a failure the session closes the connection; when
\* the connection was already open as the call began it makes exactly one
\* reconnect attempt and, if that succeeds, exactly one retry whose outcome is
\* the call's; when the call itself had opened the connection the error
\* reaches the caller right after the close, with no reconnect and no retry.
C2_ReconnectUnlessMade ==
    FirstTryBroke =>
        LET tr == call.trace
            i == FirstTry(tr)
        IN /\ Len(tr) > i /\ tr[i + 1].ev = "close"
           /\ After(tr, i, "close") = 1
           /\ IF call.made
              THEN Len(tr) = i + 1 /\ call.result = tr[i].exc
              ELSE /\ Len(tr) >= i + 2 /\ tr[i + 2].ev = "conn"
                   /\ After(tr, i, "conn") = 1
                   /\ IF tr[i + 2].exc # "none"
                      THEN Len(tr) = i + 2 /\ call.result = tr[i + 2].exc
                      ELSE /\ Len(tr) = i + 3 /\ tr[i + 3].ev = "try"
                           /\ call.result = IF tr[i + 3].exc = "none" THEN "ok"
                                            ELSE tr[i + 3].exc

\* a call whose first try broke, on a connection it found open, and that
\* reconnected and retried
C2_Witness ==
    /\ FirstTryBroke
    /\ ~call.made
    /\ Len(call.trace) = FirstTry(call.trace) + 3

\* C3: whenever an operation of the session does not complete within the
\* timeout (a write waiting for the socket to become writable, or a read
\* waiting for data) the call raises Timeout, and neither a reconnect nor a
\* retry follows in that call.
C3_TimeoutRaisesTimeout ==
    CallDone =>
        \A i \in DOMAIN call.trace :
            call.trace[i].cause \in {"write_timeout", "read_timeout"}
                => call.result = "Timeout" /\ i = Len(call.trace)

\* C6: whenever an operation of a transport (wait_open on a transport in
\* state OPENING included) fails with an I/O error, the transport is CLOSED
\* when the error reaches the caller.
C6_ErrorCloses ==
    (lastRaw.op # "none" /\ lastRaw.exc \in IOErrors)
        => rawState[lastRaw.id] = "CLOSED"

\* C7: an operation invoked on a CLOSED transport raises the bad-descriptor
\* error without any socket I/O and leaves it CLOSED; and no step takes a
\* transport from CLOSED to another state.
C7_ClosedStaysClosed ==
    /\ []((lastRaw.op \in RawOps /\ lastRaw.before = "CLOSED")
            => /\ lastRaw.exc = "EBADF"
               /\ ~lastRaw.io
               /\ rawState[lastRaw.id] = "CLOSED")
    /\ [][\A id \in RawIds :
            rawState[id] = "CLOSED" => rawState'[id] = "CLOSED"]_vars

\* an operation was invoked on a CLOSED transport
C7_Witness == lastRaw.op \in RawOps /\ lastRaw.before = "CLOSED"

\* C8 as stated: the operation that follows a read that raised Timeout, with
\* no connection-level error met, does not open a new connection.
C8_NoReconnectAfterTimeout ==
    (call.op \in RawOps /\ call.after = "readTimeout")
        => (call.trace = <<>> \/ call.trace[1].ev # "conn")

\* C8, amended: a read that raises Timeout closes the transport, so the
\* operation that follows on the same session always begins by opening a new
\* connection, although no connection-level error has occurred.
C8_ReconnectAfterTimeout ==
    /\ hist = "readTimeout" => tcpSock # 0 /\ rawState[tcpSock] = "CLOSED"
    /\ (call.op \in RawOps /\ call.after = "readTimeout")
            => (call.trace # <<>> /\ call.trace[1].ev = "conn")

\* an operation has begun right after a read that raised Timeout
C8_Witness ==
    /\ call.op \in RawOps
    /\ call.after = "readTimeout"
    /\ call.result = "ok"

(***************************************************************************)
(* Claims about the ensure_power scope (icepap/group.py).                  *)
(***************************************************************************)
\* a scope that was entered and left, all its POWER commands acknowledged
ScopeLeft ==
    /\ pwPc = "out"
    /\ scope.how \in {"normal", "exception"}
    /\ \A i \in DOMAIN scope.cmds : scope.cmds[i].ack

\* the axes of the scope whose power differed from the wanted one at entry
Differing == {a \in Range(scope.axes) : scope.entry[a] # scope.on}

\* C5: for every power vector at entry and every way the body ends, once the
\* scope is left every axis has the power it had at entry: exactly the axes
\* whose power differed from the wanted one were switched, exactly those are
\* switched back, and no other axis gets a power command.
C5_PowerRestored ==
    ScopeLeft =>
        /\ power = scope.entry
        /\ Range(scope.to_power) = Differing
        /\ IF Differing = {}
           THEN scope.cmds = <<>>
           ELSE /\ Len(scope.cmds) = 2
                /\ Range(scope.cmds[1].axes) = Differing
                /\ scope.cmds[1].on = scope.on
                /\ Range(scope.cmds[2].axes) = Differing
                /\ scope.cmds[2].on = ~scope.on

(***************************************************************************)
(* Claims about the socket session (icepap/communication.py).              *)
(***************************************************************************)
\* a command whose send_cmd ended without a communication error
Answered == done.n > 0 /\ done.out \in {"None", "list", "raise"}

\* C1: from the first byte a command writes until its reply has been read
\* completely, no other command writes to or reads from the socket: a
\* sendall never happens while bytes of the reply to another command are
\* still unread, and a recv never takes bytes of the reply to another command
C1_OneRequestInFlight == lastIo.others = {}

\* C4: an acknowledged command returns None exactly when the controller
\* replied OK to it, raises for every other reply, and never returns text
C4_NoneExactlyOnOK ==
    (Answered /\ done.use_ack) =>
        /\ done.out \in {"None", "raise"}
        /\ (done.out = "None") <=> (done.reply = ReplyOK(done.cmd))

\* C9: a read of a multi-line reply does not go on after a recv has shown
\* that the peer closed the connection: the empty read makes it raise
C9_ReadEndsWhenPeerCloses ==
    \A t \in Threads : ~(pc[t] = "more" /\ th[t].eof)

\* C10: whatever way the bytes of a multi-line reply are split across the
\* recv calls, send_cmd returns the lines between the two "$"
C10_LinesWhateverTheSplit ==
    (Answered /\ done.reply = ReplyLines(done.cmd)) =>
        /\ done.out = "list"
        /\ done.val = <<(<<"A">>), (<<"B">>)>>

\* C12: a query whose reply is "<prefix> ERROR <message>" makes send_cmd
\* raise; the reply is not turned into a result
C12_QueryErrorRaises ==
    (Answered /\ ~done.use_ack /\ done.reply = ReplyError(done.cmd)) =>
        done.out = "raise"

(***************************************************************************)
(* Claims about the class of a command (icepap/communication.py).          *)
(***************************************************************************)
IsQuery(cmd) == Contains(cmd, <<"?">>)

IsUnacknowledged(cmd) ==
    /\ ~IsQuery(cmd)
    /\ \/ cmd[1] \in {"PROG", "*PROG", "RESET", ":"}
       \/ \E d \in {"*ECAMDAT", "*LISTDAT", "*PARDAT"} : Contains(cmd, <<d>>)

Unprefixed == clsOut.data = clsCmd \o <<CR>>
Prefixed == clsOut.data = <<"#">> \o clsCmd \o <<CR>>

\* C11: a query is sent unprefixed and its reply is read; a write that
\* begins with PROG, *PROG, RESET or ":" or is one of the DAT commands is
\* sent unprefixed and no reply is read; every other write is sent with "#"
\* and its reply is read
C11_ClassDecides ==
    clsOut.set =>
        /\ IsQuery(clsCmd) => (Unprefixed /\ clsOut.wait)
        /\ IsUnacknowledged(clsCmd) => (Unprefixed /\ ~clsOut.wait)
        /\ (~IsQuery(clsCmd) /\ ~IsUnacknowledged(clsCmd)) =>
              (Prefixed /\ clsOut.wait)

\* the text holds no acknowledge character, as the docstring of send_cmd
\* asks (communication.py line 70)
NoAckChar(cmd) == ~Contains(cmd, <<"#">>)

\* C11, amended: for every command text without the acknowledge character
\* "#", the prefix and the wait for a reply follow the class as C11 says
C11_ClassDecidesWithoutAckChar ==
    (clsOut.set /\ NoAckChar(clsCmd)) =>
        /\ IsQuery(clsCmd) => (Unprefixed /\ clsOut.wait)
        /\ IsUnacknowledged(clsCmd) => (Unprefixed /\ ~clsOut.wait)
        /\ (~IsQuery(clsCmd) /\ ~IsUnacknowledged(clsCmd)) =>
              (Prefixed /\ clsOut.wait)

\* C11 witness: an unacknowledged write without "#" has been classified
C11_Witness ==
    clsOut.set /\ NoAckChar(clsCmd) /\ IsUnacknowledged(clsCmd)

(***************************************************************************)
(* Claims about the CLI move and the motion generator                      *)
(* (icepap/cli/progress_bar.py, icepap/group.py).                          *)
(***************************************************************************)
Interrupted == mv.exc \in {"inside", "outside"}

SwitchedBackAtRest(x) ==
    (x.done /\ x.switched) => (x.afterStop /\ ~x.inMotion)

\* C13: when an exception ends the motion loop, power is switched back
\* only after STOP was sent and the axes have come to rest
C13_StopDrainThenPower ==
    Interrupted =>
        /\ SwitchedBackAtRest(mv.innerExit)
        /\ SwitchedBackAtRest(mv.outerExit)

GenRunning == mvPc \in {"poll", "yielded", "dpoll", "dyielded"}

AtRest == \A a \in Axes : ~moving[a]

PairsWhileMoving ==
    /\ \A i \in 1..(Len(yields) - 1) : yields[i].rep
    /\ (mvPc \in {"poll", "dpoll"} /\ yields # <<>>) =>
          yields[Len(yields)].rep
    /\ mv.gen = "ended" => (yields # <<>> /\ ~yields[Len(yields)].rep)

\* C14: gen_motion yields at least one pair; every pair but the last
\* reports a moving axis, the last reports none and the generator ends
\* after it; once all axes have stopped for good the generator ends
C14_MotionPairs ==
    /\ []PairsWhileMoving
    /\ (<>[]AtRest) => (<>[]~GenRunning)

\* C14 witness: a generator has ended after more than one pair
C14_Witness == mv.gen = "ended" /\ Len(yields) >= 2

BothScopesLeft ==
    mvPc = "end" /\ mv.innerExit.done /\ mv.outerExit.done

\* C15: the inner scope switches only axes that were not powered at its
\* own entry, its exit switches no axis that the outer scope switched, and
\* after both scopes every axis has the power it had before the outer one
C15_NestedScopesRestore ==
    BothScopesLeft =>
        /\ Range(mv.innerTo) \subseteq {a \in Axes : ~mv.innerAt[a]}
        /\ mv.innerExit.switched =>
              Range(mv.innerTo) \cap Range(mv.outerTo) = {}
        /\ mvPower = mv.entry

(***************************************************************************)
(* Claims about the Group accessors (icepap/group.py, icepap/utils.py).    *)
(***************************************************************************)
\* the query of the i-th axis of the group was answered
AxisAnswered(i) == ~itIn.fanFail \/ itIn.outc[itIn.g[i]] = "ok"

\* C16: whatever failure occurs in the fan-out call or in a per-axis query,
\* an accessor returns one entry per axis in group order: the value of the
\* axis, or the default when its query failed
C16_OneEntryPerAxis ==
    itOut.set =>
        /\ itOut.exc = "none"
        /\ Len(itOut.values) = Len(itIn.g)
        /\ \A i \in 1..Len(itIn.g) :
              itOut.values[i] = IF AxisAnswered(i)
                                THEN Some(itIn.vals[itIn.g[i]])
                                ELSE DefaultOf(itIn.acc)

(***************************************************************************)
(* Claims about the multi-axis queries (icepap/controller.py).             *)
(***************************************************************************)
\* C17: a multi-axis query over an address list returns one element per
\* address, and element i is the value of address i of the list
C17_ElementPerAddress ==
    mqOut.set =>
        /\ mqOut.exc = "none"
        /\ ~mqOut.none
        /\ Len(mqOut.values) = Len(mqIn.addrs)
        /\ \A i \in 1..Len(mqIn.addrs) :
              mqOut.values[i] =
                  Convert(mqIn.kind, TokenOf(mqIn.kind, mqIn.vals[mqIn.addrs[i]]))

(***************************************************************************)
(* Claims about the axes and the aliases (icepap/controller.py).           *)
(***************************************************************************)
\* looking up an alias gives the handle that looking up its address gives
SameHandle ==
    \A n \in DOMAIN aliases_ :
        /\ GetItemByName(n).out = "ok"
        /\ GetItemByName(n).handle = GetItem(aliases_[n]).handle

\* the aliases of a deleted axis are not found any more
DeletedAliasesRaise ==
    (ctl.op \in {"delete", "update_axes"} /\ ctl.out = "ok") =>
        \A n \in ctl.pointed : GetItemByName(n).out = "ValueError"

AliasesRegistered == \A n \in DOMAIN aliases_ : aliases_[n] \in Registered

\* C18: an alias and its address give the same handle; after an axis is
\* deleted, directly or by update_axes, the lookup of each alias that
\* pointed at it raises; every alias points at a registered axis
C18_AliasesFollowAxes ==
    /\ SameHandle
    /\ DeletedAliasesRaise
    /\ AliasesRegistered

\* C18: an axis with an alias was deleted while another alias remains
C18_Witness ==
    /\ ctl.op \in {"delete", "update_axes"}
    /\ ctl.out = "ok"
    /\ ctl.pointed # {}
    /\ DOMAIN aliases_ # {}

\* the last request named an address no rack has
NamedInvalidAddress ==
    /\ ctl.op \in {"lookup", "add_alias", "command"}
    /\ ctl.op = "lookup" => ctl.name = ""
    /\ ctl.addr \notin ALL_AXES_VALID

\* C19: a request that names an invalid address, by a lookup, by add_alias
\* or as the argument of a command, raises, writes nothing to the
\* controller and registers no handle
C19_InvalidAddressRaises ==
    NamedInvalidAddress =>
        /\ ctl.out # "ok"
        /\ written = ctl.before
        /\ Registered = ctl.regBefore

(***************************************************************************)
(* Claims about the dump of a position table (icepap/axis.py).             *)
(***************************************************************************)
Pages == dump.pages

LastPage == Pages[Len(Pages)]

\* pages of at most 200 entries, from offset 0, each continuing after the
\* last_id of the one before
PagesInSequence ==
    /\ \A i \in 1..Len(Pages) :
          /\ Pages[i].count = 200
          /\ Pages[i].size <= 200
          /\ Pages[i].offset = IF i = 1 THEN 0 ELSE Pages[i - 1].last_id + 1
    /\ dump.pc = "loop" =>
          dump.start_pos = IF Pages = <<>> THEN 0 ELSE LastPage.last_id + 1

\* the table read is the device table, in index order
WholeTable == dump.table = [i \in 1..dev.n |-> ValueAt(i - 1)]

\* the len the device reports, for LISTDAT lowered by one
CorrectedLen == IF dev.cmd = "LISTDAT" THEN dev.len - 1 ELSE dev.len

\* the device reports the index of the last entry as len, for LISTDAT one more
LenIsLastIndex == CorrectedLen = dev.n - 1

\* the loop ended after the first page whose last_id is id
StoppedAt(id) ==
    /\ Pages # <<>>
    /\ LastPage.last_id = id
    /\ \A i \in 1..(Len(Pages) - 1) : Pages[i].last_id # id

Uploaders == {t \in UpThreads : upTh[t].op = "upload"}

\* what a finished upload is to have written, without and with ECAM PULSE
HeaderAndBlock(t) ==
    <<TextItem(t, EcamHeader(upTh[t].dtype) \o <<CR>>),
      BinItem(t, BinaryFrame(get_ushort_list(upTh[t].lpos, upTh[t].dtype)))>>

IsPrefix(s, l) == Len(s) <= Len(l) /\ s = SubSeq(l, 1, Len(s))

Ascending(l) == \A i \in 1..(Len(l) - 1) : l[i] <= l[i + 1]

LE16(f, p) == f[p] + 256 * f[p + 1]

SumOf(P) == LET S[i \in 0..Len(P)] == IF i = 0 THEN 0 ELSE S[i - 1] + P[i]
            IN  S[Len(P)]

\* the layout of a frame for the payload P: start mark 0xA5AA555A, the
\* number of words, the sum of the words modulo 2^32, the words, CR
FrameOf(f, P) ==
    /\ Len(f) = 12 + 2 * Len(P) + 1
    /\ SubSeq(f, 1, 4) = <<90, 85, 170, 165>>
    /\ LE16(f, 5) = Len(P) % 65536
    /\ LE16(f, 7) = (Len(P) \div 65536) % 65536
    /\ LE16(f, 9) = SumOf(P) % 65536
    /\ LE16(f, 11) = (SumOf(P) \div 65536) % 65536
    /\ \A j \in 1..Len(P) : LE16(f, 11 + 2 * j) = P[j]
    /\ f[Len(f)] = 13

\* send_binary was called and the socket took what it was given
BinarySent(t) ==
    /\ upTh[t].pc \in {"returned", "raised"}
    /\ Len(upTh[t].wrote) >= 1
    /\ upTh[t].cause # "OSError"

\* C22: send_binary writes, for its payload, the frame of start mark, word
\* count, checksum modulo 2^32, the words and a carriage return, and reads
\* no reply for it
C22_BinaryFrame ==
    \A t \in Uploaders :
        BinarySent(t) =>
            /\ Len(upTh[t].wrote) = 2
            /\ upTh[t].wrote[2].kind = "bin"
            /\ FrameOf(upTh[t].wrote[2].bin, upTh[t].ushorts)
            /\ upTh[t].reads = 0

IsHeader(item) == item.kind = "text" /\ Contains(item.text, <<"*ECAMDAT">>)

\* C29: the header of an upload and its binary block reach the controller
\* back to back: nothing of another thread is written between them
C29_HeaderThenBlock ==
    \A i, j \in 1..Len(upWire) :
        (/\ i < j
         /\ IsHeader(upWire[i])
         /\ upWire[j].kind = "bin"
         /\ upWire[j].t = upWire[i].t)
        => \A k \in (i + 1)..(j - 1) : upWire[k].t = upWire[i].t

(***************************************************************************)
(* Claims about find_axes (icepap/controller.py).                          *)
(***************************************************************************)
RacksSet == {i \in 0..15 : BitSet(sysstat.racks, i)}

\* the addresses 10*i+j+1 of the drivers set in the mask of each rack set
ExpectedAxes ==
    {10 * i + j + 1 : <<i, j>> \in
        {p \in RacksSet \X (0..7) :
            BitSet(sysstat.masks[p[1]][IF found.only_alive THEN 2 ELSE 1], p[2])}}

StrictlyAscending(l) == \A i \in 1..(Len(l) - 1) : l[i] < l[i + 1]

\* C23: find_axes returns exactly the addresses 10*i+j+1 of the set bits j
\* of the present mask (the alive mask with only_alive) of each set rack i,
\* strictly ascending, and asks only the racks whose bit is set
C23_FindAxes ==
    found.set =>
        /\ Range(found.axes) = ExpectedAxes
        /\ StrictlyAscending(found.axes)
        /\ Range(found.asked) = RacksSet
        /\ StrictlyAscending(found.asked)

\* C23: both racks were asked for their alive drivers, which differ from
\* the present ones
C23_Witness ==
    /\ found.set
    /\ found.only_alive
    /\ Len(found.asked) = 2
    /\ Len(found.axes) >= 3
    /\ \E i \in SomeRacks : sysstat.masks[i][1] # sysstat.masks[i][2]

(***************************************************************************)
(* Claims about the status register (icepap/utils.py, class State).        *)
(***************************************************************************)
\* bit b of the status word
StatusBit(b) ==
    IF b < 16 THEN (status_reg.lo \div (2 ^ b)) % 2
              ELSE (status_reg.hi \div (2 ^ (b - 16))) % 2

\* the value of bits from..to of the status word
BitField(from, to) ==
    LET F[b \in (from - 1)..to] ==
            IF b = from - 1 THEN 0 ELSE F[b - 1] + StatusBit(b) * (2 ^ (b - from))
    IN  F[to]

Flag(b) == IF b THEN 1 ELSE 0

\* the fields at their bit positions, as the two halves of a word; the
\* stop code lies across the halves
PutBack ==
    U32((decoded.stopcode \div 4) + 4 * Flag(decoded.limit_positive)
          + 8 * Flag(decoded.limit_negative) + 16 * Flag(decoded.inhome)
          + 32 * Flag(decoded.power5v) + 64 * Flag(decoded.verserr)
          + 128 * Flag(decoded.poweron) + 256 * decoded.info,
        Flag(decoded.present) + 2 * Flag(decoded.alive) + 4 * decoded.mode
          + 16 * decoded.disable + 128 * decoded.indexer
          + 512 * Flag(decoded.ready) + 1024 * Flag(decoded.moving)
          + 2048 * Flag(decoded.settling) + 4096 * Flag(decoded.outofwin)
          + 8192 * Flag(decoded.warning) + 16384 * (decoded.stopcode % 4))

\* C25: each accessor of State returns the bit-field of the status word
\* that the layout gives it, and the fields put back at their positions
\* give the word again
C25_BitFields ==
    decoded.set =>
        /\ Flag(decoded.present) = BitField(0, 0)
        /\ Flag(decoded.alive) = BitField(1, 1)
        /\ decoded.mode = BitField(2, 3)
        /\ decoded.disable = BitField(4, 6)
        /\ decoded.disabled = (BitField(4, 6) > 0)
        /\ decoded.indexer = BitField(7, 8)
        /\ Flag(decoded.ready) = BitField(9, 9)
        /\ Flag(decoded.moving) = BitField(10, 10)
        /\ Flag(decoded.settling) = BitField(11, 11)
        /\ Flag(decoded.outofwin) = BitField(12, 12)
        /\ Flag(decoded.warning) = BitField(13, 13)
        /\ decoded.stopcode = BitField(14, 17)
        /\ Flag(decoded.limit_positive) = BitField(18, 18)
        /\ Flag(decoded.limit_negative) = BitField(19, 19)
        /\ Flag(decoded.inhome) = BitField(20, 20)
        /\ Flag(decoded.power5v) = BitField(21, 21)
        /\ Flag(decoded.verserr) = BitField(22, 22)
        /\ Flag(decoded.poweron) = BitField(23, 23)
        /\ decoded.info = BitField(24, 31)
        /\ PutBack = status_reg

\* C25: a word with the highest bit of the stop code and of the info set
C25_Witness ==
    /\ decoded.set
    /\ decoded.stopcode >= 8
    /\ decoded.info >= 128
    /\ ~decoded.inhome

(***************************************************************************)
(* Claims about the retry of ensure_connection (icepap/tcp.py).            *)
(***************************************************************************)
\* a try of the call handed every block of the request to sendall
FullyWritten(i) == call.n > 0 /\ call.wrote[i] = call.n

\* C27: within one write_read or write_readline call the request is not
\* written again after a try that had written it completely
C27_WrittenOnce ==
    (call.op \in {"write_read", "write_readline"} /\ Len(call.wrote) = 2)
        => ~(FullyWritten(1) /\ call.wrote[2] > 0)

\* C28: when gen_move is exhausted without an exception, no axis of the
\* group is in motion on the controller as it ends
C28_ExhaustedAtRest ==
    (mv.gen = "ended" /\ mv.exc = "none" /\ mv.innerExit.done)
        => ~mv.innerExit.inMotion

(***************************************************************************)
(* Claims about the connection of a SocketCom (icepap/communication.py).   *)
(***************************************************************************)
\* C24: when disconnect returns the session reports not connected,
\* whatever connect threads were running as disconnect was called (no
\* connect thread was started later)
C24_DisconnectedOnReturn == ~(cnObs.ret = "connected" /\ ~cnObs.late)

\* C26: while a thread holds the lock and is in sendall or recv, no
\* connect thread closes or replaces the socket
C26_SocketKeptWhileUsed == cnObs.hurt # "connect"

\* C30: when the controller is in reach from some time on, every failed
\* command is followed by a command that succeeds
C30_EventuallySucceeds ==
    (<>[]cnReach) => [](cnObs.res = "error" => <>(cnObs.res = "ok"))

=============================================================================
